---- MODULE Spec2Model ----
(***************************************************************************)
(* Model of csp_adapter_slack.adapter.SlackAdapterManager: the identifier  *)
(* cache, the inbound callback (_process_slack_message), the worker loop   *)
(* (_run), publish (_on_tick), start/stop and registration.                *)
(*                                                                         *)
(* Conventions                                                             *)
(*   - Python None is the string None; an unset or empty string field of   *)
(*     a SlackMessage is "" (hasattr(x, f) and x.f is false for both).     *)
(*   - A dict is a function; d.get(k, None) is Get(d, k).                  *)
(*   - Every web-client call has an outcome: "ok" (status_code 200),       *)
(*     "bad_status" (a response with another status_code) or "raise"       *)
(*     (SlackApiError).                                                    *)
(***************************************************************************)
EXTENDS Integers, Sequences, FiniteSets, TLC

\* ------------------------------------------------------------------ bounds
MaxFrames == 3         \* frames delivered to an idle session (SpecInbound)
MaxPub == 3            \* records published to the dispatcher (SpecOutbound)
MaxSessionFrames == 2  \* frames delivered to a running session (Spec)
MaxSessionPub == 1     \* records published to a running session (Spec)
MaxFetches == 3        \* identity fetches issued by direct lookups
MaxFaultPub == 2       \* records published to the dispatcher (SpecFaults)
MaxLifecycleFrames == 1  \* frames delivered to a session (SpecLifecycle)
MaxShutdownFrames == 1   \* frames delivered to a session (SpecShutdown)
MaxShutdownPub == 1      \* records published to a session (SpecShutdown)
MaxStalePub == 2         \* records published to the session of SpecStale
MaxRaceFrames == 2       \* frames delivered to the listener threads (SpecRaces)
MaxRaceLookups == 1      \* bulk channel fetches of the worker's lookups (SpecRaces)
MaxCacheOps == 3         \* frames, publishes and fetches after which none starts (SpecCache)

\* -------------------------------------------------------------- dictionaries
None == "None"

Get(d, k) == IF k \in DOMAIN d THEN d[k] ELSE None

\* Put replacing the dict by the one entry
PutAlone(d, k, v) == [x \in {k} |-> v]

Put(d, k, v) == [x \in (DOMAIN d) \cup {k} |-> IF x = k THEN v ELSE d[x]]

EmptyDict == [x \in {} |-> None]

\* data.get(flag, False)
GetFlag(data, flag) == IF flag \in DOMAIN data THEN data[flag] ELSE FALSE

Count(f, k) == IF k \in DOMAIN f THEN f[k] ELSE 0

Bump(f, k) == Put(f, k, Count(f, k) + 1)

\* ------------------------------------------------- the platform's directory
\* ret.data["user"] of users_info(user=id)
UsersInfoData ==
  [ USERID  |-> [name |-> "blerg", id |-> "USERID",
                 profile |-> [real_name_normalized |-> "johndoe",
                              email |-> "johndoe@some.email"]],
    USERID2 |-> [name |-> "jane", id |-> "USERID2",
                 profile |-> [title |-> "eng"]],
    BOTID   |-> [name |-> "bot", id |-> "BOTID",
                 profile |-> [real_name_normalized |-> "csp bot"]] ]

UserIds == DOMAIN UsersInfoData

\* ret.data["channel"] of conversations_info(channel=id)
ConversationsInfoData ==
  [ EFGH        |-> [name |-> "a private channel", id |-> "EFGH",
                     is_im |-> FALSE, is_private |-> TRUE],
    new_channel |-> [name |-> "a new channel", id |-> "new_channel"],
    DM_CHANNEL  |-> [id |-> "DM_CHANNEL", is_im |-> TRUE, user |-> "USERID"] ]

ChannelIds == DOMAIN ConversationsInfoData

\* ret.data["channels"] of conversations_list(): the named channels
ConversationsListData ==
  << [name |-> "a private channel", id |-> "EFGH", is_private |-> TRUE],
     [name |-> "a new channel", id |-> "new_channel"] >>

\* ret.data["members"] of users_list(): the same three users; the second
\* carries its id in the profile only and has no email
UsersListData ==
  << [id |-> "USERID", name |-> "blerg",
      profile |-> [real_name_normalized |-> "johndoe", email |-> "johndoe@some.email"]],
     [name |-> "jane", profile |-> [id |-> "USERID2", title |-> "eng"]],
     [id |-> "BOTID", name |-> "bot", profile |-> [real_name_normalized |-> "csp bot"]] >>

\* a users_list() result whose second member carries no id at all, between
\* two members that do
UsersListMalformed ==
  << [id |-> "USERID", name |-> "blerg",
      profile |-> [real_name_normalized |-> "johndoe", email |-> "johndoe@some.email"]],
     [name |-> "ghost", profile |-> [real_name_normalized |-> "no id"]],
     [name |-> "jane", profile |-> [id |-> "USERID2", title |-> "eng"]] >>

\* the malformed member first: nothing precedes it
UsersListMalformedFirst ==
  << [name |-> "ghost", profile |-> [real_name_normalized |-> "no id"]],
     [id |-> "USERID", name |-> "blerg",
      profile |-> [real_name_normalized |-> "johndoe", email |-> "johndoe@some.email"]] >>

UsersListResults == {UsersListData, UsersListMalformed, UsersListMalformedFirst}

Outcomes == {"ok", "bad_status", "raise"}

\* the platform as one handler step sees it: one outcome per web-client
\* endpoint, members the ret.data["members"] of a users_list() that returns,
\* channel the ret.data["channel"] of conversations_info, by channel id
AllOk ==
  [users_info |-> "ok", conversations_info |-> "ok", conversations_list |-> "ok",
   users_list |-> "ok", members |-> UsersListData, channel |-> ConversationsInfoData,
   user |-> UsersInfoData]

\* ------------------------------------------------------------ identifier cache
\* The seven lookup tables of __init__, with the ghost fetch counters: m is
\* [cache |-> the tables, fetches |-> calls issued, by endpoint and <<key, outcome>>].
EmptyCache ==
  [ channel_id_to_channel_name |-> EmptyDict,
    channel_id_to_channel_type |-> EmptyDict,
    channel_name_to_channel_id |-> EmptyDict,
    user_id_to_user_name |-> EmptyDict,
    user_id_to_user_email |-> EmptyDict,
    user_name_to_user_id |-> EmptyDict,
    user_email_to_user_id |-> EmptyDict ]

NoFetches ==
  [ users_info |-> EmptyDict, conversations_info |-> EmptyDict,
    conversations_list |-> EmptyDict, users_list |-> EmptyDict ]

\* UserMiss refreshing on every call
UserMissAlways(name, email) == TRUE

\* line 99: if name is None or email is None
UserMiss(name, email) == name = None \/ email = None

\* _get_user_from_id: result [m, exc, name, email]
get_user_from_id(m, user_id, api) ==
  LET c == m.cache
      name0 == Get(c.user_id_to_user_name, user_id)
      email0 == Get(c.user_id_to_user_email, user_id)
  IN IF UserMiss(name0, email0)
     THEN LET f == [m.fetches EXCEPT !.users_info = Bump(@, <<user_id, api.users_info>>)]
          IN CASE api.users_info = "raise" ->
                    [m |-> [m EXCEPT !.fetches = f], exc |-> "SlackApiError",
                     name |-> None, email |-> None]
               [] api.users_info = "bad_status" ->
                    [m |-> [m EXCEPT !.fetches = f], exc |-> "",
                     name |-> name0, email |-> email0]
               [] OTHER ->
                    LET u == api.user[user_id]
                        name == IF "real_name_normalized" \in DOMAIN u.profile
                                THEN u.profile.real_name_normalized ELSE u.name
                        email == IF "email" \in DOMAIN u.profile THEN u.profile.email ELSE ""
                        c2 == [c EXCEPT
                                 !.user_id_to_user_name = Put(@, user_id, name),
                                 !.user_name_to_user_id = Put(@, name, user_id),
                                 !.user_id_to_user_email = Put(@, user_id, email),
                                 !.user_email_to_user_id = Put(@, email, user_id)]
                    IN [m |-> [cache |-> c2, fetches |-> f], exc |-> "",
                        name |-> name, email |-> email]
     ELSE [m |-> m, exc |-> "", name |-> name0, email |-> email0]

\* MemberName keying a member by its raw handle
MemberNameRaw(user) == user.name

\* line 124: user["profile"].get("real_name_normalized", user["name"])
MemberName(user) ==
  IF "real_name_normalized" \in DOMAIN user.profile
  THEN user.profile.real_name_normalized ELSE user.name

\* MemberId falling back to the member's handle
MemberIdOrHandle(user) ==
  IF "id" \in DOMAIN user THEN user.id
  ELSE IF "id" \in DOMAIN user.profile THEN user.profile.id
  ELSE user.name

\* lines 127-130: user.get("id"), else user["profile"].get("id"), else None
MemberId(user) ==
  IF "id" \in DOMAIN user THEN user.id
  ELSE IF "id" \in DOMAIN user.profile THEN user.profile.id
  ELSE None

\* IndexUsers without the name-to-id entries
RECURSIVE IndexUsersNoName(_, _, _)
IndexUsersNoName(c, members, i) ==
  IF i > Len(members) THEN [c |-> c, exc |-> ""]
  ELSE LET user == members[i]
           name == MemberName(user)
           user_id == MemberId(user)
           email == IF "email" \in DOMAIN user.profile THEN user.profile.email ELSE user_id
       IN IF user_id = None THEN [c |-> c, exc |-> "RuntimeError"]
          ELSE IndexUsersNoName(
                 [c EXCEPT !.user_id_to_user_name = Put(@, user_id, name),
                           !.user_id_to_user_email = Put(@, user_id, email),
                           !.user_email_to_user_id = Put(@, email, user_id)],
                 members, i + 1)

\* the for loop of _get_user_from_name over ret.data["members"]: result
\* [c, exc], exc the RuntimeError of a member without an id
RECURSIVE IndexUsers(_, _, _)
IndexUsers(c, members, i) ==
  IF i > Len(members) THEN [c |-> c, exc |-> ""]
  ELSE LET user == members[i]
           name == MemberName(user)
           user_id == MemberId(user)
           email == IF "email" \in DOMAIN user.profile THEN user.profile.email ELSE user_id
       IN IF user_id = None THEN [c |-> c, exc |-> "RuntimeError"]
          ELSE IndexUsers(
                 [c EXCEPT !.user_id_to_user_name = Put(@, user_id, name),
                           !.user_name_to_user_id = Put(@, name, user_id),
                           !.user_id_to_user_email = Put(@, user_id, email),
                           !.user_email_to_user_id = Put(@, email, user_id)],
                 members, i + 1)

\* CacheAfterIndex undoing the writes of a loop that raised
CacheRolledBack(c, x) == IF x.exc # "" THEN c ELSE x.c

\* lines 122-144: the loop writes the tables of self in place, so the
\* entries written before a RuntimeError stay
CacheAfterIndex(c, x) == x.c

\* _get_user_from_name: result [m, exc, user_id]
get_user_from_name(m, user_name, api) ==
  LET c == m.cache
      id0 == Get(c.user_name_to_user_id, user_name)
  IN IF id0 = None
     THEN LET f == [m.fetches EXCEPT !.users_list = Bump(@, <<user_name, api.users_list>>)]
          IN IF api.users_list = "raise"
             THEN [m |-> [m EXCEPT !.fetches = f], exc |-> "SlackApiError", user_id |-> None]
             ELSE LET x == IF api.users_list = "ok" THEN IndexUsers(c, api.members, 1)
                           ELSE [c |-> c, exc |-> ""]
                      id1 == Get(x.c.user_name_to_user_id, user_name)
                  IN [m |-> [cache |-> CacheAfterIndex(c, x), fetches |-> f],
                      exc |-> IF x.exc # "" THEN x.exc
                              ELSE IF id1 = None THEN "ValueError" ELSE "",
                      user_id |-> IF x.exc # "" THEN None ELSE id1]
     ELSE [m |-> m, exc |-> "", user_id |-> id0]

\* channel_data_to_channel_kind testing is_private before is_im
channel_kind_private_first(data) ==
  IF GetFlag(data, "is_private") THEN "private"
  ELSE IF GetFlag(data, "is_im") THEN "message"
  ELSE "public"

\* _channel_data_to_channel_kind
channel_data_to_channel_kind(data) ==
  IF GetFlag(data, "is_im") THEN "message"
  ELSE IF GetFlag(data, "is_private") THEN "private"
  ELSE "public"

\* ChannelKey keying a direct channel by its channel name
ChannelKeyByName(name, user_name) == name

\* lines 176-184: a direct channel is keyed by its counterpart's name
ChannelKey(name, user_name) == IF name = "IM" THEN user_name ELSE name

\* _get_channel_from_id: result [m, exc, name, kind]
get_channel_from_id(m, channel_id, api) ==
  LET c == m.cache
      name0 == Get(c.channel_id_to_channel_name, channel_id)
      kind0 == Get(c.channel_id_to_channel_type, channel_id)
  IN IF name0 = None
     THEN LET f == [m.fetches EXCEPT
                      !.conversations_info = Bump(@, <<channel_id, api.conversations_info>>)]
              m1 == [m EXCEPT !.fetches = f]
          IN CASE api.conversations_info = "raise" ->
                    [m |-> m1, exc |-> "SlackApiError", name |-> None, kind |-> None]
               [] api.conversations_info = "bad_status" ->
                    [m |-> m1, exc |-> "", name |-> name0, kind |-> kind0]
               [] OTHER ->
                    LET data == api.channel[channel_id]
                        kind == channel_data_to_channel_kind(data)
                        name == IF kind = "message" THEN "IM" ELSE data.name
                    IN IF name = "IM"
                       THEN LET r == get_user_from_id(m1, data.user, api)
                                c2 == [r.m.cache EXCEPT
                                         !.channel_name_to_channel_id =
                                            Put(@, ChannelKey(name, r.name), channel_id),
                                         !.channel_id_to_channel_name = Put(@, channel_id, name),
                                         !.channel_id_to_channel_type = Put(@, channel_id, kind)]
                            IN IF r.exc # ""
                               THEN [m |-> r.m, exc |-> r.exc, name |-> None, kind |-> None]
                               ELSE [m |-> [r.m EXCEPT !.cache = c2], exc |-> "",
                                     name |-> name, kind |-> kind]
                       ELSE LET c2 == [c EXCEPT
                                         !.channel_name_to_channel_id = Put(@, name, channel_id),
                                         !.channel_id_to_channel_name = Put(@, channel_id, name),
                                         !.channel_id_to_channel_type = Put(@, channel_id, kind)]
                            IN [m |-> [cache |-> c2, fetches |-> f], exc |-> "",
                                name |-> name, kind |-> kind]
     ELSE [m |-> m, exc |-> "", name |-> name0, kind |-> kind0]

\* IndexChannels without the name-to-id entries
RECURSIVE IndexChannelsNoName(_, _, _)
IndexChannelsNoName(c, channels, i) ==
  IF i > Len(channels) THEN c
  ELSE LET channel == channels[i]
           kind == channel_data_to_channel_kind(channel)
       IN IndexChannelsNoName(
            [c EXCEPT !.channel_id_to_channel_name = Put(@, channel.id, channel.name),
                      !.channel_id_to_channel_type = Put(@, channel.id, kind)],
            channels, i + 1)

\* the for loop of _get_channel_from_name over ret.data["channels"]
RECURSIVE IndexChannels(_, _, _)
IndexChannels(c, channels, i) ==
  IF i > Len(channels) THEN c
  ELSE LET channel == channels[i]
           kind == channel_data_to_channel_kind(channel)
       IN IndexChannels(
            [c EXCEPT !.channel_id_to_channel_name = Put(@, channel.id, channel.name),
                      !.channel_name_to_channel_id = Put(@, channel.name, channel.id),
                      !.channel_id_to_channel_type = Put(@, channel.id, kind)],
            channels, i + 1)

\* channel_name.startswith("<#") and channel_name.endswith("|>"), on the
\* names the model publishes: the tagged names are the keys of TaggedNames
TaggedNames ==
  [ x \in {"<#new_channel|>", "<#EFGH|>", "<#C12345|>", "<#|>"} |->
      CASE x = "<#new_channel|>" -> "new_channel"
        [] x = "<#EFGH|>" -> "EFGH"
        [] x = "<#C12345|>" -> "C12345"
        [] OTHER -> "" ]

\* IsTagged taking no name for a tagged one
IsTaggedNever(channel_name) == FALSE

IsTagged(channel_name) == channel_name \in DOMAIN TaggedNames

\* channel_name[2:-2]
StripTag(channel_name) == TaggedNames[channel_name]

\* Recheck finding nothing
NoRecheck(c, channel_name) == None

\* line 210: the second self._channel_name_to_channel_id.get(channel_name, None)
Recheck(c, channel_name) == Get(c.channel_name_to_channel_id, channel_name)

\* _get_channel_from_name: result [m, exc, channel_id]
get_channel_from_name(m, channel_name, api) ==
  LET c == m.cache
      id0 == IF IsTagged(channel_name) THEN StripTag(channel_name)
             ELSE Get(c.channel_name_to_channel_id, channel_name)
  IN IF id0 = None
     THEN LET f == [m.fetches EXCEPT
                      !.conversations_list = Bump(@, <<channel_name, api.conversations_list>>)]
          IN IF api.conversations_list = "raise"
             THEN [m |-> [m EXCEPT !.fetches = f], exc |-> "SlackApiError", channel_id |-> None]
             ELSE LET c2 == IF api.conversations_list = "ok"
                            THEN IndexChannels(c, ConversationsListData, 1) ELSE c
                      id1 == Recheck(c2, channel_name)
                  IN [m |-> [cache |-> c2, fetches |-> f],
                      exc |-> IF id1 = None THEN "ValueError" ELSE "",
                      channel_id |-> id1]
     ELSE [m |-> m, exc |-> "", channel_id |-> id0]

\* ElementsOf finding no sub-elements
ElementsOfNone(element) == << >>

\* element.get("elements", [])
ElementsOf(element) == IF "elements" \in DOMAIN element THEN element.elements ELSE << >>

\* the while loop of _get_tags_from_message: to_search is the stack, popped
\* from its end; result [m, exc, tags]
RECURSIVE TagsLoop(_, _, _, _)
TagsLoop(m, to_search, tags, api) ==
  IF to_search = << >> THEN [m |-> m, exc |-> "", tags |-> tags]
  ELSE LET element == to_search[Len(to_search)]
           rest == SubSeq(to_search, 1, Len(to_search) - 1) \o ElementsOf(element)
       IN IF "type" \in DOMAIN element /\ element.type = "user"
          THEN LET r == get_user_from_id(m, element.user_id, api)
               IN IF r.exc # "" THEN [m |-> r.m, exc |-> r.exc, tags |-> tags]
                  ELSE TagsLoop(r.m, rest,
                                IF r.name # None /\ r.name # "" THEN Append(tags, r.name) ELSE tags,
                                api)
          ELSE TagsLoop(m, rest, tags, api)

\* get_tags_from_message leaving the bot's own name out
get_tags_skipping_bot(m, blocks, api) ==
  [TagsLoop(m, blocks, << >>, api) EXCEPT !.tags = SelectSeq(@, LAMBDA t : t # "csp bot")]

get_tags_from_message(m, blocks, api) == TagsLoop(m, blocks, << >>, api)


\* ------------------------------------------------------------------- state
VARIABLES
  running,        \* self._running
  thread,         \* self._thread: "none", or the position of the worker in _run,
                  \* "done" (returned) or "dead" (ended by an exception)
  conn,           \* self._slack_client: "new", "connected" or "closed"
  subscribers,    \* self._subscribers
  publishers,     \* self._publishers
  inqueue,        \* self._inqueue
  outqueue,       \* self._outqueue
  cache,          \* the seven lookup tables
  seen_msg_ids,   \* self._seen_msg_ids
  slack_msg,      \* _run local: the record being dispatched
  channel_id,     \* _run local: "Unbound" until first assigned
  slack_msgs,     \* _run local: the inbound batch
  push_idx,       \* _run local: position of the for loop over self._subscribers
  stop_pc,        \* position of the thread calling stop(): "idle", "close", "join"
  calls,          \* per thread of ConcurrentThreads, the call it is in the middle
                  \* of: its position and its locals
  fetches,        \* ghost: identity fetches issued
  acks,           \* ghost: envelope ids acknowledged, in order
  dedup_log,      \* ghost: per event id, the verdicts of the dedup check, in order
  cmds,           \* ghost: platform commands issued by the dispatcher, in order
  ticks,          \* ghost: per subscriber, the batches pushed to it, in order
  enq_log,        \* ghost: the records put on the inbound queue, in order
  pub_log,        \* ghost: the records put on the outbound queue, in order
  deq_log,        \* ghost: the records the worker took off the outbound queue, in order
  batch_log,      \* ghost: the inbound batches the worker drained, in order
  reg_at,         \* ghost: per subscriber, the batches drained before it registered
  iter,           \* ghost: what the current worker iteration has done so far
  last,           \* ghost: the call the last step made, if it was the callback or
                  \* a direct call of a method
  nframes, npub,  \* ghost: frames delivered, records published
  stop_at         \* ghost: the worker's position and the two queues when stop()
                  \* last cleared the flag of a running session

prog_vars == <<running, thread, conn, subscribers, publishers, inqueue, outqueue,
               cache, seen_msg_ids, slack_msg, channel_id, slack_msgs, push_idx, stop_pc,
               calls>>

ghost_vars == <<fetches, acks, dedup_log, cmds, ticks, enq_log, pub_log, deq_log,
                batch_log, reg_at, iter, last,
                nframes, npub, stop_at>>

vars == <<prog_vars, ghost_vars>>

Endpoints == {"s1", "s2"}

NoIter == [cmd |-> FALSE, drained |-> FALSE, push |-> FALSE]

NoStep == [op |-> "none"]

NoStop == [thread |-> "none", outqueue |-> << >>, inqueue |-> << >>, cmds |-> 0]

\* two threads of the transport's listener pool, and the worker thread
\* inside _get_channel_from_name
ConcurrentThreads == {"t1", "t2", "w"}

Idle == [pc |-> "idle"]

\* SlackAdapterManager.__init__
Init ==
  /\ running = FALSE
  /\ thread = "none"
  /\ conn = "new"
  /\ subscribers = << >>
  /\ publishers = << >>
  /\ inqueue = << >>
  /\ outqueue = << >>
  /\ cache = EmptyCache
  /\ seen_msg_ids = {}
  /\ slack_msg = None
  /\ channel_id = "Unbound"
  /\ slack_msgs = << >>
  /\ push_idx = 0
  /\ stop_pc = "idle"
  /\ calls = [t \in ConcurrentThreads |-> Idle]
  /\ fetches = NoFetches
  /\ acks = << >>
  /\ dedup_log = EmptyDict
  /\ cmds = << >>
  /\ ticks = [s \in Endpoints |-> << >>]
  /\ enq_log = << >>
  /\ pub_log = << >>
  /\ deq_log = << >>
  /\ batch_log = << >>
  /\ reg_at = [s \in Endpoints |-> 0]
  /\ iter = NoIter
  /\ last = NoStep
  /\ nframes = 0
  /\ stop_at = NoStop
  /\ npub = 0

\* --------------------------------------------------------- inbound frames
MentionBlocks ==
  << [type |-> "rich_text", block_id |-> "tx381",
      elements |-> << [type |-> "rich_text_section",
                       elements |-> << [type |-> "user", user_id |-> "BOTID"],
                                       [type |-> "text", text |-> " "],
                                       [type |-> "user", user_id |-> "USERID"],
                                       [type |-> "text", text |-> " "],
                                       [type |-> "user", user_id |-> "USERID2"] >>] >>] >>

TextBlocks ==
  << [type |-> "rich_text", block_id |-> "gB9fq",
      elements |-> << [type |-> "rich_text_section",
                       elements |-> << [type |-> "text", text |-> "test"] >>] >>] >>

EventIds == {"1.2", "2.1"}

\* req.payload["event"], after the payloads of tests/test_adapter.py
Event(kind, ts) ==
  CASE kind = "mention" ->
         [type |-> "app_mention", text |-> "<@BOTID> <@USERID> <@USERID2>",
          user |-> "USERID", ts |-> ts, channel |-> "EFGH", blocks |-> MentionBlocks]
    [] kind = "dm" ->
         [type |-> "message", text |-> "test", user |-> "USERID", ts |-> ts,
          channel |-> "DM_CHANNEL", blocks |-> TextBlocks]
    [] kind = "plain" ->
         [type |-> "message", text |-> "Hi here!", user |-> "USERID2", ts |-> ts,
          channel |-> "new_channel", blocks |-> << >>]
    [] kind = "subtype" ->
         [type |-> "message", subtype |-> "channel_join", text |-> "User joined the channel",
          user |-> "USERID", ts |-> ts, channel |-> "EFGH", blocks |-> TextBlocks]
    [] kind = "reaction_added" ->
         [type |-> "reaction_added", user |-> "USERID2", ts |-> ts, channel |-> "EFGH"]

EventKinds == {"mention", "dm", "plain", "subtype", "reaction_added"}

\* the SocketModeRequest objects the transport hands to the listener
EventsApiFrames(kinds) ==
  { [type |-> "events_api", payload |-> [type |-> "event_callback", event |-> Event(k, ts)]] :
      k \in kinds, ts \in EventIds }

SlashCommandFrame ==
  [type |-> "slash_commands", payload |-> [command |-> "/hello-socket-mode", text |-> ""]]

Frames == EventsApiFrames(EventKinds) \cup {SlashCommandFrame}

\* req.payload["event"].get("subtype")
Subtype(event) == IF "subtype" \in DOMAIN event THEN event.subtype ELSE None

\* x or ""
OrEmpty(x) == IF x = None THEN "" ELSE x

\* DedupToggle with a mark that is never cleared (a seen-forever filter)
DedupToggleKeep(seen, ts) ==
  IF ts \in seen THEN [process |-> FALSE, seen |-> seen]
  ELSE [process |-> TRUE, seen |-> seen \cup {ts}]

\* Qualifies without the subtype test
QualifiesAnySubtype(event) == event.type \in {"message", "app_mention"}

\* lines 241-247 of _process_slack_message: the membership test on
\* self._seen_msg_ids and the update that follows it
DedupToggle(seen, ts) ==
  IF ts \in seen THEN [process |-> FALSE, seen |-> seen \ {ts}]
  ELSE [process |-> TRUE, seen |-> seen \cup {ts}]

\* line 249 of _process_slack_message
Qualifies(event) == event.type \in {"message", "app_mention"} /\ Subtype(event) = None

\* ThreadOf leaving the thread unset
ThreadUnset(event) == ""

\* line 264: thread=req.payload["event"]["ts"]
ThreadOf(event) == event.ts

\* lines 250-267 of _process_slack_message: result [m, exc, msgs], msgs the
\* records put on the inbound queue
Normalize(m, req, envelope_id, api) ==
  LET event == req.payload.event
      r1 == get_user_from_id(m, event.user, api)
      r2 == get_channel_from_id(r1.m, event.channel, api)
      r3 == get_tags_from_message(r2.m, event.blocks, api)
      msg == [user |-> OrEmpty(r1.name), user_email |-> OrEmpty(r1.email),
              user_id |-> event.user, tags |-> r3.tags,
              channel |-> OrEmpty(r2.name), channel_id |-> event.channel,
              channel_type |-> OrEmpty(r2.kind), msg |-> event.text,
              reaction |-> "", thread |-> ThreadOf(event), payload |-> req.payload,
              obj |-> envelope_id]
  IN IF r1.exc # "" THEN [m |-> r1.m, exc |-> r1.exc, msgs |-> << >>]
     ELSE IF r2.exc # "" THEN [m |-> r2.m, exc |-> r2.exc, msgs |-> << >>]
     ELSE IF r3.exc # "" THEN [m |-> r3.m, exc |-> r3.exc, msgs |-> << >>]
     ELSE [m |-> r3.m, exc |-> "", msgs |-> << msg >>]

\* NotEventsApi resetting the dedup set on a frame of another type
NotEventsApiResets(m, seen) ==
  [m |-> m, seen |-> {}, acks |-> << >>, verdict |-> "ignored", exc |-> "", msgs |-> << >>]

\* line 236 of _process_slack_message, req.type is not "events_api": the
\* handler falls through and returns
NotEventsApi(m, seen) ==
  [m |-> m, seen |-> seen, acks |-> << >>, verdict |-> "ignored", exc |-> "", msgs |-> << >>]

\* SeenAfter keeping the mark only of a frame that produced a record
SeenAfterOnlyIfPut(seen, marked, produced) == IF produced THEN marked ELSE seen

\* the dedup set after a frame that passed the dedup test: line 247 adds the
\* id before the filter of line 249 and before the lookups of lines 250-266,
\* and nothing removes it when the frame is filtered or a lookup raises
SeenAfter(seen, marked, produced) == marked

\* _process_slack_message, called by the transport's thread: result
\* [m, seen, acks, verdict, exc, msgs]; verdict is "ignored" (not an
\* event callback), "suppressed" (dedup), "filtered" (type or subtype) or
\* "normalized"
process_slack_message(m, seen, req, envelope_id, api) ==
  IF req.type = "events_api"
  THEN LET event == req.payload.event
           d == DedupToggle(seen, event.ts)
       IN IF ~d.process
          THEN [m |-> m, seen |-> d.seen, acks |-> << envelope_id >>,
                verdict |-> "suppressed", exc |-> "", msgs |-> << >>]
          ELSE IF Qualifies(event)
          THEN LET n == Normalize(m, req, envelope_id, api)
               IN [m |-> n.m, seen |-> SeenAfter(seen, d.seen, n.msgs # << >>),
                   acks |-> << envelope_id >>,
                   verdict |-> "normalized", exc |-> n.exc, msgs |-> n.msgs]
          ELSE [m |-> m, seen |-> SeenAfter(seen, d.seen, FALSE),
                acks |-> << envelope_id >>,
                verdict |-> "filtered", exc |-> "", msgs |-> << >>]
  ELSE NotEventsApi(m, seen)

\* Effects with the puts ahead of the acknowledgement
EffectsPutFirst(acks_sent, msgs) ==
  [i \in 1..Len(msgs) |-> [e |-> "put", id |-> msgs[i].obj]]
    \o [i \in 1..Len(acks_sent) |-> [e |-> "ack", id |-> acks_sent[i]]]

\* what one call of _process_slack_message sends and puts, in program
\* order: send_socket_mode_response (line 239) comes before
\* self._inqueue.put (line 267)
Effects(acks_sent, msgs) ==
  [i \in 1..Len(acks_sent) |-> [e |-> "ack", id |-> acks_sent[i]]]
    \o [i \in 1..Len(msgs) |-> [e |-> "put", id |-> msgs[i].obj]]

DedupKey(req) == IF req.type = "events_api" THEN req.payload.event.ts ELSE None

\* the transport delivers frame req to the registered listener
ProcessSlackMessage(req, api) ==
  /\ \E envelope_id \in {nframes + 1} :
     \E r \in {process_slack_message([cache |-> cache, fetches |-> fetches],
                                     seen_msg_ids, req, envelope_id, api)} :
        /\ cache' = r.m.cache
        /\ fetches' = r.m.fetches
        /\ seen_msg_ids' = r.seen
        /\ acks' = acks \o r.acks
        /\ inqueue' = inqueue \o r.msgs
        /\ enq_log' = enq_log \o r.msgs
        /\ dedup_log' = IF r.verdict = "ignored" THEN dedup_log
                        ELSE Put(dedup_log, DedupKey(req),
                                 Append(IF DedupKey(req) \in DOMAIN dedup_log
                                        THEN dedup_log[DedupKey(req)] ELSE << >>,
                                        r.verdict # "suppressed"))
        /\ last' = [op |-> "frame", req |-> req, envelope_id |-> envelope_id,
                    verdict |-> r.verdict, exc |-> r.exc, put |-> Len(r.msgs),
                    trace |-> Effects(r.acks, r.msgs)]
        /\ nframes' = nframes + 1
  /\ UNCHANGED <<running, thread, conn, subscribers, publishers, outqueue, slack_msg,
                 channel_id, slack_msgs, push_idx, stop_pc, cmds, ticks, pub_log, deq_log,
                 batch_log, reg_at, iter, npub, calls, stop_at>>

Callback ==
  /\ nframes < MaxFrames
  /\ \E req \in Frames :
    \E u \in Outcomes, c \in Outcomes :
      ProcessSlackMessage(req, [AllOk EXCEPT !.users_info = u, !.conversations_info = c])

\* the inbound pipeline alone: frames arrive on an idle session
NextInbound == Callback

SpecInbound == Init /\ [][NextInbound]_vars


\* ------------------------------------------------------------ queue.Queue
\* Queue.get taking the newest item (a LIFO queue)
QueueGetNewest(q) == [item |-> q[Len(q)], queue |-> SubSeq(q, 1, Len(q) - 1)]

\* Queue.put
QueuePut(q, item) == Append(q, item)

\* Queue.get on a queue that is not empty
QueueGet(q) == [item |-> Head(q), queue |-> Tail(q)]

\* Queue.empty
QueueEmpty(q) == q = << >>

\* ------------------------------------------------- publish, registration
\* the SlackMessage structs the application publishes (rid: the object)
PubRecord(kind, rid) ==
  LET blank == [rid |-> rid, channel |-> "", channel_id |-> "", reaction |-> "",
                thread |-> "", msg |-> ""]
  IN CASE kind = "react" ->
            [blank EXCEPT !.channel = "a private channel", !.channel_id = "EFGH",
                          !.reaction = "eyes", !.thread = "1.2"]
       [] kind = "react_text" ->
            [blank EXCEPT !.channel_id = "EFGH", !.reaction = "eyes", !.thread = "1.2",
                          !.msg = "Hello"]
       [] kind = "hello" ->
            [blank EXCEPT !.channel = "a new channel", !.thread = "1.2", !.msg = "Hello"]
       [] kind = "tagged" ->
            [blank EXCEPT !.channel = "<#new_channel|>", !.msg = "Hello"]
       [] kind = "unknown" ->
            [blank EXCEPT !.channel = "no such channel", !.msg = "Hello"]
       [] kind = "malformed" ->
            [blank EXCEPT !.channel = "a new channel", !.reaction = "eyes"]
       [] kind = "nochannel" ->
            [blank EXCEPT !.msg = "Hello"]
       [] kind = "malformed_id" ->
            [blank EXCEPT !.channel_id = "EFGH", !.reaction = "eyes"]
       [] kind = "blank" -> blank

PubKinds == {"react", "react_text", "hello", "tagged", "unknown", "malformed", "nochannel",
             "malformed_id", "blank"}

\* _on_tick putting the record at the head of the queue
on_tick_front(q, value) == << value >> \o q

\* _on_tick
on_tick(q, value) == QueuePut(q, value)

\* SlackOutputAdapterImpl.on_tick: the engine publishes one record
OnTick(kind) ==
  /\ stop_pc = "idle"
  /\ \E value \in {PubRecord(kind, npub + 1)} :
        /\ outqueue' = on_tick(outqueue, value)
        /\ pub_log' = Append(pub_log, value)
  /\ npub' = npub + 1
  /\ last' = NoStep
  /\ UNCHANGED <<running, thread, conn, subscribers, publishers, inqueue, cache,
                 seen_msg_ids, slack_msg, channel_id, slack_msgs, push_idx, stop_pc,
                 fetches, acks, dedup_log, cmds, ticks, enq_log, deq_log, batch_log,
                 reg_at, iter, nframes, calls, stop_at>>

InSeq(x, q) == \E i \in 1..Len(q) : q[i] = x

\* register appending whatever the list holds
register_always(list, adapter) == Append(list, adapter)

\* register_subscriber / register_publisher: adapter not in list => append
register(list, adapter) == IF InSeq(adapter, list) THEN list ELSE Append(list, adapter)

\* the batches drained before a subscriber registered now would be served
BatchesBefore == IF thread = "push" THEN Len(batch_log) - 1 ELSE Len(batch_log)

\* register_subscriber: the effect on the program state
SubscriberRegistration(adapter) ==
  /\ subscribers' = register(subscribers, adapter)
  /\ reg_at' = IF InSeq(adapter, subscribers) THEN reg_at
               ELSE [reg_at EXCEPT ![adapter] = BatchesBefore]
  /\ UNCHANGED <<running, thread, conn, publishers, inqueue, outqueue, cache,
                 seen_msg_ids, slack_msg, channel_id, slack_msgs, push_idx, stop_pc,
                 fetches, acks, dedup_log, cmds, ticks, enq_log, pub_log, deq_log,
                 batch_log, iter, nframes, npub, calls, stop_at>>

RegisterSubscriber(adapter) ==
  /\ SubscriberRegistration(adapter)
  /\ last' = NoStep

\* register_subscriber, the call observed: known tells whether the adapter
\* was registered before
RegisterSubscriberCall(adapter) ==
  /\ SubscriberRegistration(adapter)
  /\ last' = [op |-> "register_subscriber", adapter |-> adapter,
              known |-> InSeq(adapter, subscribers)]

RegisterPublisher(adapter) ==
  /\ publishers' = register(publishers, adapter)
  /\ last' = [op |-> "register_publisher", adapter |-> adapter,
              known |-> InSeq(adapter, publishers)]
  /\ UNCHANGED <<running, thread, conn, subscribers, inqueue, outqueue, cache,
                 seen_msg_ids, slack_msg, channel_id, slack_msgs, push_idx, stop_pc,
                 fetches, acks, dedup_log, cmds, ticks, enq_log, pub_log, deq_log,
                 batch_log, reg_at, iter, nframes, npub, calls, stop_at>>

\* ----------------------------------------------------------- start, stop
Terminated == thread \in {"none", "done", "dead"}

\* start(): the flag is set and a new thread runs _run from its first line;
\* called on a stopped session whose previous worker thread has ended
Start ==
  /\ ~running
  /\ stop_pc = "idle"
  /\ Terminated
  /\ running' = TRUE
  /\ thread' = "connect"
  /\ slack_msg' = None
  /\ channel_id' = "Unbound"
  /\ slack_msgs' = << >>
  /\ push_idx' = 0
  /\ iter' = NoIter
  /\ last' = NoStep
  /\ UNCHANGED <<conn, subscribers, publishers, inqueue, outqueue, cache, seen_msg_ids,
                 stop_pc, fetches, acks, dedup_log, cmds, ticks, enq_log, pub_log,
                 deq_log, batch_log, reg_at, nframes, npub, calls, stop_at>>

\* StopNext without the test of the flag
StopNextUnguarded(r) == "close"

\* stop(), line 80: if self._running
StopNext(r) == IF r THEN "close" ELSE "idle"

\* stop(), lines 80-81: the effect on the program state
StopBegin ==
  /\ stop_pc = "idle"
  /\ running' = FALSE
  /\ stop_pc' = StopNext(running)
  /\ stop_at' = IF running
                THEN [thread |-> thread, outqueue |-> outqueue, inqueue |-> inqueue,
                      cmds |-> Len(cmds)]
                ELSE stop_at
  /\ UNCHANGED <<thread, conn, subscribers, publishers, inqueue, outqueue, cache,
                 seen_msg_ids, slack_msg, channel_id, slack_msgs, push_idx,
                 fetches, acks, dedup_log, cmds, ticks, enq_log, pub_log, deq_log,
                 batch_log, reg_at, iter, nframes, npub, calls>>

\* stop(), line 80-81: nothing when not running, else the flag is cleared
StopCall ==
  /\ StopBegin
  /\ last' = NoStep

\* stop(), lines 80-81, the call observed: running is the flag it found
StopCallObserved ==
  /\ StopBegin
  /\ last' = [op |-> "stop", running |-> running, exc |-> ""]

\* stop(), line 82: self._slack_client.close()
StopClose ==
  /\ stop_pc = "close"
  /\ conn' = "closed"
  /\ stop_pc' = "join"
  /\ last' = NoStep
  /\ UNCHANGED <<running, thread, subscribers, publishers, inqueue, outqueue, cache,
                 seen_msg_ids, slack_msg, channel_id, slack_msgs, push_idx,
                 fetches, acks, dedup_log, cmds, ticks, enq_log, pub_log, deq_log,
                 batch_log, reg_at, iter, nframes, npub, calls, stop_at>>

\* stop(), line 82, with close() raising (the AttributeError of lines
\* 333-337): nothing catches it, stop() ends with the exception and line 83
\* is not reached; the transport is left as it was or closed
StopCloseRaises ==
  /\ stop_pc = "close"
  /\ conn' \in {conn, "closed"}
  /\ stop_pc' = "idle"
  /\ last' = [op |-> "stop", running |-> TRUE, exc |-> "AttributeError"]
  /\ UNCHANGED <<running, thread, subscribers, publishers, inqueue, outqueue, cache,
                 seen_msg_ids, slack_msg, channel_id, slack_msgs, push_idx,
                 fetches, acks, dedup_log, cmds, ticks, enq_log, pub_log, deq_log,
                 batch_log, reg_at, iter, nframes, npub, calls, stop_at>>

\* Joinable of a join that does not wait
JoinableAlways(t) == TRUE

\* Thread.join returns once the thread has ended
Joinable(t) == t \in {"done", "dead"}

\* stop(), line 83: self._thread.join() returns once the worker has ended
StopJoin ==
  /\ stop_pc = "join"
  /\ Joinable(thread)
  /\ stop_pc' = "idle"
  /\ last' = NoStep
  /\ UNCHANGED <<running, thread, conn, subscribers, publishers, inqueue, outqueue, cache,
                 seen_msg_ids, slack_msg, channel_id, slack_msgs, push_idx,
                 fetches, acks, dedup_log, cmds, ticks, enq_log, pub_log, deq_log,
                 batch_log, reg_at, iter, nframes, npub, calls, stop_at>>

\* ------------------------------------------------------------------ _run
\* line 270: self._slack_client.connect()
RunConnect ==
  /\ thread = "connect"
  /\ conn' = "connected"
  /\ thread' = "loop"
  /\ last' = NoStep
  /\ UNCHANGED <<running, subscribers, publishers, inqueue, outqueue, cache, seen_msg_ids,
                 slack_msg, channel_id, slack_msgs, push_idx, stop_pc,
                 fetches, acks, dedup_log, cmds, ticks, enq_log, pub_log, deq_log,
                 batch_log, reg_at, iter, nframes, npub, calls, stop_at>>

\* line 272: while self._running
RunLoop ==
  /\ thread = "loop"
  /\ thread' = IF running THEN "out_check" ELSE "close"
  /\ iter' = NoIter
  /\ last' = NoStep
  /\ UNCHANGED <<running, conn, subscribers, publishers, inqueue, outqueue, cache,
                 seen_msg_ids, slack_msg, channel_id, slack_msgs, push_idx, stop_pc,
                 fetches, acks, dedup_log, cmds, ticks, enq_log, pub_log, deq_log,
                 batch_log, reg_at, nframes, npub, calls, stop_at>>

\* OutboundDrained with the drain loop testing the flag as well
OutboundDrainedOrStopped(q, flag) == QueueEmpty(q) \/ ~flag

\* line 274: the drain loop ends on self._outqueue.empty() alone, whatever
\* self._running is
OutboundDrained(q, flag) == QueueEmpty(q)

\* lines 274-276: while not self._outqueue.empty(): slack_msg = self._outqueue.get()
RunOutCheck ==
  /\ thread = "out_check"
  /\ IF OutboundDrained(outqueue, running)
     THEN /\ thread' = "in_check"
          /\ iter' = [iter EXCEPT !.drained = TRUE]
          /\ UNCHANGED <<outqueue, slack_msg, deq_log>>
     ELSE /\ ~QueueEmpty(outqueue)
          /\ thread' = "resolve"
          /\ slack_msg' = QueueGet(outqueue).item
          /\ outqueue' = QueueGet(outqueue).queue
          /\ deq_log' = Append(deq_log, QueueGet(outqueue).item)
          /\ UNCHANGED iter
  /\ last' = NoStep
  /\ UNCHANGED <<running, conn, subscribers, publishers, inqueue, cache,
                 seen_msg_ids, channel_id, slack_msgs, push_idx, stop_pc,
                 fetches, acks, dedup_log, cmds, ticks, enq_log, pub_log,
                 batch_log, reg_at, nframes, npub, calls, stop_at>>

\* lines 280-284: the destination channel; an exception of the lookup ends
\* the thread
RunResolve(api) ==
  /\ thread = "resolve"
  /\ IF slack_msg.channel_id # ""
     THEN /\ channel_id' = slack_msg.channel_id
          /\ thread' = "command"
          /\ last' = NoStep
          /\ UNCHANGED <<cache, fetches>>
     ELSE IF slack_msg.channel # ""
     THEN \E r \in {get_channel_from_name([cache |-> cache, fetches |-> fetches],
                                           slack_msg.channel, api)} :
             /\ cache' = r.m.cache
             /\ fetches' = r.m.fetches
             /\ channel_id' = IF r.exc = "" THEN r.channel_id ELSE channel_id
             /\ thread' = IF r.exc = "" THEN "command" ELSE "dead"
             /\ last' = NoStep
     ELSE /\ thread' = "command"
          /\ last' = NoStep
          /\ UNCHANGED <<channel_id, cache, fetches>>
  /\ UNCHANGED <<running, conn, subscribers, publishers, inqueue, outqueue,
                 seen_msg_ids, slack_msg, slack_msgs, push_idx, stop_pc,
                 acks, dedup_log, cmds, ticks, enq_log, pub_log, deq_log,
                 batch_log, reg_at, iter, nframes, npub, calls, stop_at>>

\* the thread after reactions_add raised SlackApiError, were the call wrapped
\* like chat_postMessage
AfterReactionErrorCaught == "out_check"

\* lines 289-293: no try/except around reactions_add, the exception leaves _run
AfterReactionError == "dead"

\* the thread after chat_postMessage raised, were the exception not caught
AfterSendErrorUncaught == "dead"

\* lines 296-303: except SlackApiError: log.exception(...), the loop goes on
AfterSendError == "out_check"

\* the thread after a malformed record, were the error raised instead of logged
AfterMalformedRaises == "dead"

\* lines 304-306: log.exception(...) only, the drain loop goes on
AfterMalformed == "out_check"

\* IsReaction yielding to a body text
IsReactionWithoutText(msg) == msg.reaction # "" /\ msg.thread # "" /\ msg.msg = ""

\* line 287: the record carries a reaction name and a thread reference
IsReaction(msg) == msg.reaction # "" /\ msg.thread # ""

\* lines 287-306: the command for slack_msg; result [cmds, thread, exc],
\* cmds the commands issued (attempted), outcome the outcome of the call
Dispatch(msg, chan, outcome) ==
  IF IsReaction(msg)
  THEN IF chan = "Unbound"
       THEN [cmds |-> << >>, thread |-> "dead", exc |-> "UnboundLocalError"]
       ELSE [cmds |-> << [op |-> "reactions_add", channel |-> chan, name |-> msg.reaction,
                          timestamp |-> msg.thread, rid |-> msg.rid, outcome |-> outcome] >>,
             thread |-> IF outcome = "raise" THEN AfterReactionError ELSE "out_check",
             exc |-> IF outcome = "raise" THEN "SlackApiError" ELSE ""]
  ELSE IF msg.msg # ""
  THEN IF chan = "Unbound"
       THEN [cmds |-> << >>, thread |-> "dead", exc |-> "UnboundLocalError"]
       ELSE [cmds |-> << [op |-> "chat_postMessage", channel |-> chan, text |-> msg.msg,
                          rid |-> msg.rid, outcome |-> outcome] >>,
             thread |-> IF outcome = "raise" THEN AfterSendError ELSE "out_check",
             exc |-> IF outcome = "raise" THEN "SlackApiError" ELSE ""]
  ELSE [cmds |-> << >>, thread |-> AfterMalformed, exc |-> "malformed"]

RunCommand(outcome) ==
  /\ thread = "command"
  /\ \E d \in {Dispatch(slack_msg, channel_id, outcome)} :
        /\ cmds' = cmds \o d.cmds
        /\ thread' = d.thread
        /\ iter' = [iter EXCEPT !.cmd = @ \/ d.cmds # << >>]
        /\ last' = NoStep
  /\ UNCHANGED <<running, conn, subscribers, publishers, inqueue, outqueue, cache,
                 seen_msg_ids, slack_msg, channel_id, slack_msgs, push_idx, stop_pc,
                 fetches, acks, dedup_log, ticks, enq_log, pub_log, deq_log,
                 batch_log, reg_at, nframes, npub, calls, stop_at>>

\* lines 308-311: if not self._inqueue.empty(): slack_msgs = []
RunInCheck ==
  /\ thread = "in_check"
  /\ IF QueueEmpty(inqueue)
     THEN thread' = "sleep" /\ UNCHANGED slack_msgs
     ELSE thread' = "in_drain" /\ slack_msgs' = << >>
  /\ last' = NoStep
  /\ UNCHANGED <<running, conn, subscribers, publishers, inqueue, outqueue, cache,
                 seen_msg_ids, slack_msg, channel_id, push_idx, stop_pc,
                 fetches, acks, dedup_log, cmds, ticks, enq_log, pub_log, deq_log,
                 batch_log, reg_at, iter, nframes, npub, calls, stop_at>>

\* lines 312-313: while not self._inqueue.empty(): slack_msgs.append(self._inqueue.get())
RunInDrain ==
  /\ thread = "in_drain"
  /\ IF QueueEmpty(inqueue)
     THEN /\ thread' = "push"
          /\ push_idx' = 1
          /\ batch_log' = Append(batch_log, slack_msgs)
          /\ last' = NoStep
          /\ UNCHANGED <<inqueue, slack_msgs>>
     ELSE /\ slack_msgs' = Append(slack_msgs, QueueGet(inqueue).item)
          /\ inqueue' = QueueGet(inqueue).queue
          /\ last' = NoStep
          /\ UNCHANGED <<thread, push_idx, batch_log>>
  /\ UNCHANGED <<running, conn, subscribers, publishers, outqueue, cache,
                 seen_msg_ids, slack_msg, channel_id, stop_pc,
                 fetches, acks, dedup_log, cmds, ticks, enq_log, pub_log, deq_log,
                 reg_at, iter, nframes, npub, calls, stop_at>>

\* the worker going back to the outbound drain after the inbound delivery
AfterPushDrainAgain == "out_check"

\* line 320: after the for loop the worker sleeps
AfterPush == "sleep"

\* lines 316-317: for adapter in self._subscribers: adapter.push_tick(slack_msgs)
RunPush ==
  /\ thread = "push"
  /\ IF push_idx <= Len(subscribers)
     THEN /\ ticks' = [ticks EXCEPT ![subscribers[push_idx]] = Append(@, slack_msgs)]
          /\ push_idx' = push_idx + 1
          /\ iter' = [iter EXCEPT !.push = TRUE]
          /\ last' = NoStep
          /\ UNCHANGED thread
     ELSE /\ thread' = AfterPush
          /\ last' = NoStep
          /\ UNCHANGED <<ticks, push_idx, iter>>
  /\ UNCHANGED <<running, conn, subscribers, publishers, inqueue, outqueue, cache,
                 seen_msg_ids, slack_msg, channel_id, slack_msgs, stop_pc,
                 fetches, acks, dedup_log, cmds, enq_log, pub_log, deq_log,
                 batch_log, reg_at, nframes, npub, calls, stop_at>>

\* lines 320-325: sleep(0.1), then the liveness check, which the worker runs
\* on itself: self._thread.is_alive() is true of the running thread
RunSleep ==
  /\ thread = "sleep"
  /\ thread' = "loop"
  /\ running' = IF Terminated THEN FALSE ELSE running
  /\ last' = NoStep
  /\ UNCHANGED <<conn, subscribers, publishers, inqueue, outqueue, cache,
                 seen_msg_ids, slack_msg, channel_id, slack_msgs, push_idx, stop_pc,
                 fetches, acks, dedup_log, cmds, ticks, enq_log, pub_log, deq_log,
                 batch_log, reg_at, iter, nframes, npub, calls, stop_at>>

\* _run returning without a close of its own
NoCloseOnExit(c) == c

\* line 329: the worker closes the client when it leaves the loop, whether
\* or not stop() has closed it
CloseOnExit(c) == "closed"

\* lines 328-338: self._slack_client.close(), then _run returns
RunClose ==
  /\ thread = "close"
  /\ conn' = CloseOnExit(conn)
  /\ thread' = "done"
  /\ last' = NoStep
  /\ UNCHANGED <<running, subscribers, publishers, inqueue, outqueue, cache,
                 seen_msg_ids, slack_msg, channel_id, slack_msgs, push_idx, stop_pc,
                 fetches, acks, dedup_log, cmds, ticks, enq_log, pub_log, deq_log,
                 batch_log, reg_at, iter, nframes, npub, calls, stop_at>>

\* lines 328-338 with close() raising AttributeError: the except clause
\* swallows it and _run returns; the transport is left as it was or closed
RunCloseRaises ==
  /\ thread = "close"
  /\ conn' \in {conn, "closed"}
  /\ thread' = "done"
  /\ last' = NoStep
  /\ UNCHANGED <<running, subscribers, publishers, inqueue, outqueue, cache,
                 seen_msg_ids, slack_msg, channel_id, slack_msgs, push_idx, stop_pc,
                 fetches, acks, dedup_log, cmds, ticks, enq_log, pub_log, deq_log,
                 batch_log, reg_at, iter, nframes, npub, calls, stop_at>>

\* the steps of an iteration that touch neither a record nor a batch
Idler ==
  \/ RunConnect
  \/ RunLoop
  \/ RunOutCheck
  \/ RunInCheck
  \/ RunSleep
  \/ RunClose

\* the outbound half of an iteration, with connect, sleep and close
Dispatcher ==
  \/ Idler
  \/ \E o \in Outcomes : RunResolve([AllOk EXCEPT !.conversations_list = o])
  \/ \E o \in {"ok", "raise"} : RunCommand(o)

\* the inbound half of an iteration
Deliverer ==
  \/ RunInDrain
  \/ RunPush

Worker == Dispatcher \/ Deliverer

\* the frames delivered while the worker runs
SessionFrames == EventsApiFrames({"plain"})

SessionCallback ==
  /\ nframes < MaxSessionFrames
  /\ \E req \in SessionFrames : ProcessSlackMessage(req, AllOk)

SessionPubKinds == {"react"}

\* a session: subscribers, frames from the transport, the worker, publishes
Next ==
  \/ Start
  \/ StopCall
  \/ StopClose
  \/ StopJoin
  \/ \E a \in Endpoints : RegisterSubscriber(a)
  \/ (npub < MaxSessionPub /\ \E k \in SessionPubKinds : OnTick(k))
  \/ SessionCallback
  \/ Worker

Spec == Init /\ [][Next]_vars

OutboundPubKinds == {"react", "react_text", "hello", "tagged"}

\* the outbound path alone: no frame arrives, the inbound queue stays empty
\* and lines 311-317 of _run are never reached
NextOutbound ==
  \/ Start
  \/ StopCall
  \/ StopClose
  \/ StopJoin
  \/ (npub < MaxPub /\ \E k \in OutboundPubKinds : OnTick(k))
  \/ Dispatcher

SpecOutbound == Init /\ [][NextOutbound]_vars

\* records that cannot be sent: an unknown channel name, no reaction target
\* and no text (with a channel id, with a channel name, with nothing at all),
\* and a sendable record to follow them
FaultPubKinds == {"unknown", "malformed", "malformed_id", "blank", "hello"}

\* the outbound path fed with records that cannot be sent
NextFaults ==
  \/ Start
  \/ StopCall
  \/ StopClose
  \/ StopJoin
  \/ (npub < MaxFaultPub /\ \E k \in FaultPubKinds : OnTick(k))
  \/ Dispatcher

SpecFaults == Init /\ [][NextFaults]_vars

\* the inbound path of a session: nothing is published, the outbound queue
\* stays empty and lines 276-306 of _run are never reached; the worker
\* thread is scheduled as long as it has not ended
NextDelivery ==
  \/ Start
  \/ StopCall
  \/ StopClose
  \/ StopJoin
  \/ \E a \in Endpoints : RegisterSubscriber(a)
  \/ SessionCallback
  \/ Idler
  \/ Deliverer

SpecDelivery == Init /\ [][NextDelivery]_vars /\ WF_vars(Idler \/ Deliverer)

\* the output adapters of the graph
PublisherEndpoints == {"p1"}

LifecycleCallback ==
  /\ nframes < MaxLifecycleFrames
  /\ \E req \in SessionFrames : ProcessSlackMessage(req, AllOk)

\* start, stop and registration as their callers see them, with a close()
\* that may raise, and the inbound path of the worker
NextLifecycle ==
  \/ Start
  \/ StopCallObserved
  \/ StopClose
  \/ StopCloseRaises
  \/ StopJoin
  \/ \E a \in Endpoints : RegisterSubscriberCall(a)
  \/ \E a \in PublisherEndpoints : RegisterPublisher(a)
  \/ LifecycleCallback
  \/ Idler
  \/ RunCloseRaises
  \/ Deliverer

SpecLifecycle == Init /\ [][NextLifecycle]_vars

ShutdownCallback ==
  /\ nframes < MaxShutdownFrames
  /\ \E req \in SessionFrames : ProcessSlackMessage(req, AllOk)

\* a session whose platform calls all return or raise (none blocks): the
\* worker thread is scheduled until it ends, and so is the thread inside
\* stop(); whether and when stop() is called is up to the engine
NextShutdown ==
  \/ Start
  \/ StopCall
  \/ StopClose
  \/ StopJoin
  \/ RegisterSubscriber("s1")
  \/ (npub < MaxShutdownPub /\ \E k \in SessionPubKinds : OnTick(k))
  \/ ShutdownCallback
  \/ Worker

SpecShutdown ==
  Init /\ [][NextShutdown]_vars /\ WF_vars(Worker) /\ WF_vars(StopClose \/ StopJoin)

\* the records of a session that publishes to a channel id and without any
\* channel
StalePubKinds == {"react", "nochannel"}

\* the outbound path with records that name no channel: neither branch of
\* lines 280-284 assigns channel_id for them
NextStale ==
  \/ Start
  \/ StopCall
  \/ StopClose
  \/ StopJoin
  \/ (npub < MaxStalePub /\ \E k \in StalePubKinds : OnTick(k))
  \/ Dispatcher

SpecStale == Init /\ [][NextStale]_vars

\* ---------------------------------------------------------- direct lookups
RECURSIVE SumOver(_, _)
SumOver(f, S) ==
  IF S = {} THEN 0
  ELSE LET k == CHOOSE x \in S : TRUE IN f[k] + SumOver(f, S \ {k})

\* the calls counted in one table of fetch counters
Calls(f) == SumOver(f, DOMAIN f)

\* the identity fetches issued so far
Fetched ==
  Calls(fetches.users_info) + Calls(fetches.conversations_info)
    + Calls(fetches.conversations_list) + Calls(fetches.users_list)

\* the names a caller resolves: two display names of the directory, a raw
\* handle that is not a display name, and a name of nobody
LookupNames == {"johndoe", "jane", "blerg", "nobody"}

\* a direct call of _get_user_from_id
UserByIdCall(user_id, api, observed) ==
  /\ \E r \in {get_user_from_id([cache |-> cache, fetches |-> fetches], user_id, api)} :
        /\ cache' = r.m.cache
        /\ fetches' = r.m.fetches
        /\ last' = IF observed THEN [op |-> "user_from_id", key |-> user_id, exc |-> r.exc,
                      ret |-> << r.name, r.email >>, api |-> api]
                   ELSE NoStep
  /\ UNCHANGED <<running, thread, conn, subscribers, publishers, inqueue, outqueue,
                 seen_msg_ids, slack_msg, channel_id, slack_msgs, push_idx, stop_pc,
                 acks, dedup_log, cmds, ticks, enq_log, pub_log, deq_log, batch_log,
                 reg_at, iter, nframes, npub, calls, stop_at>>

\* a direct call of _get_user_from_id, its result observed
LookupUserById(user_id, api) == UserByIdCall(user_id, api, TRUE)

\* a direct call of _get_channel_from_id
ChannelByIdCall(chan, api, observed) ==
  /\ \E r \in {get_channel_from_id([cache |-> cache, fetches |-> fetches], chan, api)} :
        /\ cache' = r.m.cache
        /\ fetches' = r.m.fetches
        /\ last' = IF observed THEN [op |-> "channel_from_id", key |-> chan, exc |-> r.exc,
                      ret |-> << r.name, r.kind >>, api |-> api]
                   ELSE NoStep
  /\ UNCHANGED <<running, thread, conn, subscribers, publishers, inqueue, outqueue,
                 seen_msg_ids, slack_msg, channel_id, slack_msgs, push_idx, stop_pc,
                 acks, dedup_log, cmds, ticks, enq_log, pub_log, deq_log, batch_log,
                 reg_at, iter, nframes, npub, calls, stop_at>>

\* a direct call of _get_channel_from_id, its result observed
LookupChannelById(chan, api) == ChannelByIdCall(chan, api, TRUE)

\* a direct call of _get_user_from_name
UserByNameCall(user_name, api, observed) ==
  /\ \E r \in {get_user_from_name([cache |-> cache, fetches |-> fetches], user_name, api)} :
        /\ cache' = r.m.cache
        /\ fetches' = r.m.fetches
        /\ last' = IF observed THEN [op |-> "user_from_name", key |-> user_name, exc |-> r.exc,
                      ret |-> << r.user_id >>, api |-> api]
                   ELSE NoStep
  /\ UNCHANGED <<running, thread, conn, subscribers, publishers, inqueue, outqueue,
                 seen_msg_ids, slack_msg, channel_id, slack_msgs, push_idx, stop_pc,
                 acks, dedup_log, cmds, ticks, enq_log, pub_log, deq_log, batch_log,
                 reg_at, iter, nframes, npub, calls, stop_at>>

\* a direct call of _get_user_from_name, its result observed
LookupUserByName(user_name, api) == UserByNameCall(user_name, api, TRUE)

\* a direct call of _get_channel_from_name
ChannelByNameCall(channel_name, api, observed) ==
  /\ \E r \in {get_channel_from_name([cache |-> cache, fetches |-> fetches],
                                      channel_name, api)} :
        /\ cache' = r.m.cache
        /\ fetches' = r.m.fetches
        /\ last' = IF observed THEN [op |-> "channel_from_name", key |-> channel_name, exc |-> r.exc,
                      ret |-> << r.channel_id >>, api |-> api]
                   ELSE NoStep
  /\ UNCHANGED <<running, thread, conn, subscribers, publishers, inqueue, outqueue,
                 seen_msg_ids, slack_msg, channel_id, slack_msgs, push_idx, stop_pc,
                 acks, dedup_log, cmds, ticks, enq_log, pub_log, deq_log, batch_log,
                 reg_at, iter, nframes, npub, calls, stop_at>>

\* a direct call of _get_channel_from_name, its result observed
LookupChannelByName(channel_name, api) == ChannelByNameCall(channel_name, api, TRUE)

\* lookups by id, of users and channels, against a directory whose calls
\* may fail
NextByIdLookup ==
  \/ (Fetched < MaxFetches /\ \E id \in UserIds, u \in Outcomes :
         LookupUserById(id, [AllOk EXCEPT !.users_info = u]))
  \/ (Fetched < MaxFetches /\ \E id \in ChannelIds, u \in Outcomes, c \in Outcomes :
         LookupChannelById(id, [AllOk EXCEPT !.users_info = u, !.conversations_info = c]))

SpecByIdLookup == Init /\ [][NextByIdLookup]_vars

\* lookups of users, by name and by id
NextUserLookup ==
  \/ (Fetched < MaxFetches /\ \E id \in UserIds, u \in Outcomes :
         LookupUserById(id, [AllOk EXCEPT !.users_info = u]))
  \/ (Fetched < MaxFetches /\ \E n \in LookupNames, l \in Outcomes :
         LookupUserByName(n, [AllOk EXCEPT !.users_list = l]))

SpecUserLookup == Init /\ [][NextUserLookup]_vars

\* a directory in which USERID2 carries the display name of USERID:
\* ret.data["user"] of users_info and ret.data["members"] of users_list
UsersInfoSharedName ==
  [UsersInfoData EXCEPT !.USERID2 = [name |-> "jane", id |-> "USERID2",
                                     profile |-> [real_name_normalized |-> "johndoe"]]]

UsersListSharedName ==
  [UsersListData EXCEPT ![2] = [name |-> "jane",
                                profile |-> [id |-> "USERID2",
                                             real_name_normalized |-> "johndoe"]]]

SharedNameApi == [AllOk EXCEPT !.user = UsersInfoSharedName, !.members = UsersListSharedName]

\* lookups of users, by id and by name, against that directory
NextSharedName ==
  \/ (Fetched < MaxFetches /\ \E id \in UserIds, u \in Outcomes :
         LookupUserById(id, [SharedNameApi EXCEPT !.users_info = u]))
  \/ (Fetched < MaxFetches /\ \E n \in LookupNames, l \in Outcomes :
         LookupUserByName(n, [SharedNameApi EXCEPT !.users_list = l]))

SpecSharedName == Init /\ [][NextSharedName]_vars

\* a flag of a channel record: absent, or present with either value
FlagValues == {"absent", "true", "false"}

WithFlag(data, flag, v) ==
  IF v = "absent" THEN data
  ELSE [x \in (DOMAIN data) \cup {flag} |-> IF x = flag THEN v = "true" ELSE data[x]]

ChannelNames == [EFGH |-> "a private channel", new_channel |-> "a new channel",
                 DM_CHANNEL |-> "a group"]

\* ret.data["channel"] for channel id with the two flags as given
FlaggedChannel(id, im, priv) ==
  WithFlag(WithFlag([id |-> id, name |-> ChannelNames[id], user |-> "USERID"],
                    "is_im", im),
           "is_private", priv)

\* lookups of channels by id whose records carry every combination of the
\* two flags
NextChannelKinds ==
  Fetched < MaxFetches /\ \E id \in ChannelIds, im \in FlagValues, priv \in FlagValues :
    LookupChannelById(id, [AllOk EXCEPT !.channel[id] = FlaggedChannel(id, im, priv)])

SpecChannelKinds == Init /\ [][NextChannelKinds]_vars

\* the channel names a caller resolves: the two listed names, an unlisted
\* one, the tagged literals (of a listed id, of an unlisted id, of the empty
\* id) and two literals that miss one end of the tag
ChannelLookupNames ==
  {"a private channel", "a new channel", "no such channel",
   "<#EFGH|>", "<#new_channel|>", "<#C12345|>", "<#|>", "<#EFGH>", "#EFGH|>"}

\* lookups of channels, by name and by id
NextChannelLookup ==
  \/ (Fetched < MaxFetches /\ \E n \in ChannelLookupNames, l \in Outcomes :
         LookupChannelByName(n, [AllOk EXCEPT !.conversations_list = l]))
  \/ (Fetched < MaxFetches /\ \E id \in ChannelIds, c \in Outcomes :
         LookupChannelById(id, [AllOk EXCEPT !.conversations_info = c]))

SpecChannelLookup == Init /\ [][NextChannelLookup]_vars

\* block lists handed to _get_tags_from_message: the empty list, a tree
\* without mentions, the mention payload, mentions at three depths in two
\* groups, one user mentioned twice at different depths, and a bare leaf
BlockTrees ==
  [ empty   |-> << >>,
    text    |-> TextBlocks,
    mention |-> MentionBlocks,
    nested  |-> << [type |-> "rich_text",
                    elements |-> << [type |-> "rich_text_section",
                                     elements |-> << [type |-> "user", user_id |-> "USERID"],
                                                     [type |-> "text", text |-> " and "] >>],
                                    [type |-> "rich_text_list",
                                     elements |-> << [type |-> "rich_text_section",
                                                      elements |-> << [type |-> "user",
                                                                       user_id |-> "USERID2"] >>] >>],
                                    [type |-> "user", user_id |-> "BOTID"] >>] >>,
    twice   |-> << [type |-> "user", user_id |-> "USERID2"],
                   [type |-> "rich_text",
                    elements |-> << [type |-> "rich_text_section",
                                     elements |-> << [type |-> "user", user_id |-> "USERID2"],
                                                     [type |-> "user", user_id |-> "USERID"] >>] >>] >>,
    leaf    |-> << [type |-> "user", user_id |-> "USERID2"] >> ]

\* a direct call of _get_tags_from_message
ExtractTags(tree, api) ==
  /\ \E r \in {get_tags_from_message([cache |-> cache, fetches |-> fetches],
                                      BlockTrees[tree], api)} :
        /\ cache' = r.m.cache
        /\ fetches' = r.m.fetches
        /\ last' = [op |-> "tags", key |-> tree, exc |-> r.exc, ret |-> r.tags, api |-> api]
  /\ UNCHANGED <<running, thread, conn, subscribers, publishers, inqueue, outqueue,
                 seen_msg_ids, slack_msg, channel_id, slack_msgs, push_idx, stop_pc,
                 acks, dedup_log, cmds, ticks, enq_log, pub_log, deq_log, batch_log,
                 reg_at, iter, nframes, npub, calls, stop_at>>

\* tag extractions against a directory whose calls may fail
NextTags ==
  Fetched < MaxFetches /\ \E tree \in DOMAIN BlockTrees, u \in Outcomes :
    ExtractTags(tree, [AllOk EXCEPT !.users_info = u])

SpecTags == Init /\ [][NextTags]_vars

CacheFrames == EventsApiFrames({"dm"})

\* the frames delivered, records published and fetches issued so far
CacheOps == nframes + npub + Fetched

CacheCallback ==
  /\ CacheOps < MaxCacheOps
  /\ \E req \in CacheFrames : \E u \in {"ok", "bad_status"} :
       ProcessSlackMessage(req, [AllOk EXCEPT !.users_info = u])

CachePubKinds == {"hello"}

\* the keys the direct lookups of SpecCache ask for
CacheUserIds == {"BOTID"}
CacheChannelIds == {"EFGH"}
CacheUserNames == {"jane"}
CacheChannelNames == {"a private channel"}

\* everything that touches the cache, with start and stop: direct lookups
\* of the four kinds, frames from the transport, publishes and the worker
NextCache ==
  \/ Start
  \/ StopCall
  \/ StopClose
  \/ StopJoin
  \/ (CacheOps < MaxCacheOps /\ \E k \in CachePubKinds : OnTick(k))
  \/ CacheCallback
  \/ Worker
  \/ (CacheOps < MaxCacheOps /\ \E id \in CacheUserIds :
         UserByIdCall(id, AllOk, FALSE))
  \/ (CacheOps < MaxCacheOps /\ \E id \in CacheChannelIds :
         ChannelByIdCall(id, AllOk, FALSE))
  \/ (CacheOps < MaxCacheOps /\ \E n \in CacheUserNames :
         \E ms \in {UsersListData, UsersListMalformed} :
           UserByNameCall(n, [AllOk EXCEPT !.members = ms], FALSE))
  \/ (CacheOps < MaxCacheOps /\ \E n \in CacheChannelNames :
         ChannelByNameCall(n, AllOk, FALSE))

SpecCache == Init /\ [][NextCache]_vars

\* lookups of users by name against bulk results that may hold a member
\* without an id
NextBulkUsers ==
  Fetched < MaxFetches /\ \E n \in LookupNames, l \in Outcomes, ms \in UsersListResults :
    LookupUserByName(n, [AllOk EXCEPT !.users_list = l, !.members = ms])

SpecBulkUsers == Init /\ [][NextBulkUsers]_vars

\* -------------------------------------------------- calls on several threads
\* The transport runs its listeners on a pool of threads and the worker
\* thread runs _get_channel_from_name: the calls below are the same methods
\* one statement at a time, so that the calls of different threads
\* interleave. The adapter takes no lock. Every web-client call returns
\* status 200.

\* a thread tests, through its return to "idle", whether it is in a call
Set(t, local) == [calls EXCEPT ![t] = local]

\* what the calls of this section leave alone
OtherThanCalls ==
  <<running, thread, conn, subscribers, publishers, outqueue, slack_msg, channel_id,
    slack_msgs, push_idx, stop_pc, cmds, ticks, pub_log, deq_log, batch_log, reg_at,
    iter, npub, stop_at>>

\* frames of message events on a named public channel, without blocks
RaceFrames == EventsApiFrames({"plain"})

\* lines 236-239: the listener is entered and acknowledges the frame
CbAck(t, req) ==
  /\ calls[t].pc = "idle"
  /\ nframes < MaxRaceFrames
  /\ calls' = Set(t, [pc |-> "dedup_test", req |-> req, envelope_id |-> nframes + 1,
                        seen |-> FALSE, name |-> None, email |-> None,
                        channel |-> None, kind |-> None, line |-> 236])
  /\ acks' = Append(acks, nframes + 1)
  /\ nframes' = nframes + 1
  /\ last' = NoStep
  /\ UNCHANGED <<OtherThanCalls, inqueue, cache, seen_msg_ids, fetches, dedup_log, enq_log>>

\* line 241: if req.payload["event"]["ts"] in self._seen_msg_ids
CbDedupTest(t) ==
  /\ calls[t].pc = "dedup_test"
  /\ calls' = Set(t, [calls[t] EXCEPT
                        !.pc = "dedup_update",
                        !.seen = calls[t].req.payload.event.ts \in seen_msg_ids])
  /\ last' = NoStep
  /\ UNCHANGED <<OtherThanCalls, inqueue, cache, seen_msg_ids, fetches, acks, dedup_log,
                 enq_log, nframes>>

\* lines 243-249: remove the id and return, or add it and test the type;
\* set.remove of an id another thread has removed raises KeyError, which
\* ends the call as well
CbDedupUpdate(t) ==
  /\ calls[t].pc = "dedup_update"
  /\ LET event == calls[t].req.payload.event
     IN /\ seen_msg_ids' = IF calls[t].seen THEN seen_msg_ids \ {event.ts}
                           ELSE seen_msg_ids \cup {event.ts}
        /\ calls' = Set(t, IF calls[t].seen \/ ~Qualifies(event) THEN Idle
                           ELSE [calls[t] EXCEPT !.pc = "user_read"])
        /\ dedup_log' = Put(dedup_log, event.ts,
                            Append(IF event.ts \in DOMAIN dedup_log
                                   THEN dedup_log[event.ts] ELSE << >>,
                                   ~calls[t].seen))
  /\ last' = NoStep
  /\ UNCHANGED <<OtherThanCalls, inqueue, cache, fetches, acks, enq_log, nframes>>

\* lines 95-99 of _get_user_from_id: the two reads and the test
CbUserRead(t) ==
  /\ calls[t].pc = "user_read"
  /\ LET user_id == calls[t].req.payload.event.user
         name == Get(cache.user_id_to_user_name, user_id)
         email == Get(cache.user_id_to_user_email, user_id)
     IN calls' = Set(t, [calls[t] EXCEPT
                           !.pc = IF UserMiss(name, email) THEN "user_fetch" ELSE "channel_name",
                           !.name = name, !.email = email])
  /\ last' = NoStep
  /\ UNCHANGED <<OtherThanCalls, inqueue, cache, seen_msg_ids, fetches, acks, dedup_log,
                 enq_log, nframes>>

\* line 100: users_info(user=user_id)
CbUserFetch(t) ==
  /\ calls[t].pc = "user_fetch"
  /\ fetches' = [fetches EXCEPT
                   !.users_info = Bump(@, << calls[t].req.payload.event.user, "ok" >>)]
  /\ calls' = Set(t, [calls[t] EXCEPT !.pc = "user_store", !.line = 105])
  /\ last' = NoStep
  /\ UNCHANGED <<OtherThanCalls, inqueue, cache, seen_msg_ids, acks, dedup_log, enq_log,
                 nframes>>

\* lines 103-108: the response is read and the four entries are stored, one
\* assignment a step (lines 105, 106, 107, 108)
CbUserStore(t) ==
  /\ calls[t].pc = "user_store"
  /\ LET user_id == calls[t].req.payload.event.user
         u == AllOk.user[user_id]
         name == IF "real_name_normalized" \in DOMAIN u.profile
                 THEN u.profile.real_name_normalized ELSE u.name
         email == IF "email" \in DOMAIN u.profile THEN u.profile.email ELSE ""
         line == calls[t].line
     IN /\ cache' =
             CASE line = 105 -> [cache EXCEPT !.user_id_to_user_name = Put(@, user_id, name)]
               [] line = 106 -> [cache EXCEPT !.user_name_to_user_id = Put(@, name, user_id)]
               [] line = 107 -> [cache EXCEPT !.user_id_to_user_email = Put(@, user_id, email)]
               [] OTHER -> [cache EXCEPT !.user_email_to_user_id = Put(@, email, user_id)]
        /\ calls' = Set(t, IF line = 108
                           THEN [calls[t] EXCEPT !.pc = "channel_name",
                                                 !.name = name, !.email = email]
                           ELSE [calls[t] EXCEPT !.line = line + 1])
  /\ last' = NoStep
  /\ UNCHANGED <<OtherThanCalls, inqueue, seen_msg_ids, fetches, acks, dedup_log, enq_log,
                 nframes>>

\* line 161 of _get_channel_from_id: name = self._channel_id_to_channel_name.get(...)
CbChannelName(t) ==
  /\ calls[t].pc = "channel_name"
  /\ calls' = Set(t, [calls[t] EXCEPT
                        !.pc = "channel_kind",
                        !.channel = Get(cache.channel_id_to_channel_name,
                                        calls[t].req.payload.event.channel)])
  /\ last' = NoStep
  /\ UNCHANGED <<OtherThanCalls, inqueue, cache, seen_msg_ids, fetches, acks, dedup_log,
                 enq_log, nframes>>

\* lines 162-165: kind = self._channel_id_to_channel_type.get(...), then
\* the test of the name alone
CbChannelKind(t) ==
  /\ calls[t].pc = "channel_kind"
  /\ calls' = Set(t, [calls[t] EXCEPT
                        !.pc = IF calls[t].channel = None THEN "channel_fetch" ELSE "put",
                        !.kind = Get(cache.channel_id_to_channel_type,
                                     calls[t].req.payload.event.channel)])
  /\ last' = NoStep
  /\ UNCHANGED <<OtherThanCalls, inqueue, cache, seen_msg_ids, fetches, acks, dedup_log,
                 enq_log, nframes>>

\* line 166: conversations_info(channel=channel_id)
CbChannelFetch(t) ==
  /\ calls[t].pc = "channel_fetch"
  /\ fetches' = [fetches EXCEPT
                   !.conversations_info = Bump(@, << calls[t].req.payload.event.channel, "ok" >>)]
  /\ calls' = Set(t, [calls[t] EXCEPT !.pc = "channel_store", !.line = 182])
  /\ last' = NoStep
  /\ UNCHANGED <<OtherThanCalls, inqueue, cache, seen_msg_ids, acks, dedup_log, enq_log,
                 nframes>>

\* lines 167-184 for a channel that is not a direct one, one assignment a
\* step: name-to-id (182), id-to-name (183), id-to-kind (184)
CbChannelStore(t) ==
  /\ calls[t].pc = "channel_store"
  /\ LET id == calls[t].req.payload.event.channel
         data == AllOk.channel[id]
         kind == channel_data_to_channel_kind(data)
         line == calls[t].line
     IN /\ kind # "message"
        /\ cache' =
             CASE line = 182 ->
                    [cache EXCEPT !.channel_name_to_channel_id = Put(@, data.name, id)]
               [] line = 183 ->
                    [cache EXCEPT !.channel_id_to_channel_name = Put(@, id, data.name)]
               [] OTHER ->
                    [cache EXCEPT !.channel_id_to_channel_type = Put(@, id, kind)]
        /\ calls' = Set(t, IF line = 184
                           THEN [calls[t] EXCEPT !.pc = "put", !.channel = data.name,
                                                 !.kind = kind]
                           ELSE [calls[t] EXCEPT !.line = line + 1])
  /\ last' = NoStep
  /\ UNCHANGED <<OtherThanCalls, inqueue, seen_msg_ids, fetches, acks, dedup_log, enq_log,
                 nframes>>

\* lines 252-267: the tags of an event without blocks, the record, the put
CbPut(t) ==
  /\ calls[t].pc = "put"
  /\ LET event == calls[t].req.payload.event
         msg == [user |-> OrEmpty(calls[t].name), user_email |-> OrEmpty(calls[t].email),
                 user_id |-> event.user,
                 tags |-> get_tags_from_message([cache |-> cache, fetches |-> fetches],
                                                event.blocks, AllOk).tags,
                 channel |-> OrEmpty(calls[t].channel), channel_id |-> event.channel,
                 channel_type |-> OrEmpty(calls[t].kind), msg |-> event.text,
                 reaction |-> "", thread |-> ThreadOf(event),
                 payload |-> calls[t].req.payload, obj |-> calls[t].envelope_id]
     IN /\ inqueue' = QueuePut(inqueue, msg)
        /\ enq_log' = Append(enq_log, msg)
  /\ calls' = Set(t, Idle)
  /\ last' = NoStep
  /\ UNCHANGED <<OtherThanCalls, cache, seen_msg_ids, fetches, acks, dedup_log, nframes>>

\* the listener on thread t, one statement at a time
ListenerThread(t) ==
  \/ \E req \in RaceFrames : CbAck(t, req)
  \/ CbDedupTest(t)
  \/ CbDedupUpdate(t)
  \/ CbUserRead(t)
  \/ CbUserFetch(t)
  \/ CbUserStore(t)
  \/ CbChannelName(t)
  \/ CbChannelKind(t)
  \/ CbChannelFetch(t)
  \/ CbChannelStore(t)
  \/ CbPut(t)

\* line 284: the worker enters _get_channel_from_name for the name of a
\* record; lines 189-197, the test of the tag and the read of the
\* name-to-id table
WkRead(channel_name) ==
  /\ calls["w"].pc = "idle"
  /\ Calls(fetches.conversations_list) < MaxRaceLookups
  /\ calls' = Set("w", IF ~IsTagged(channel_name)
                          /\ Get(cache.channel_name_to_channel_id, channel_name) = None
                       THEN [pc |-> "list_fetch", channel_name |-> channel_name,
                             i |-> 1, line |-> 205]
                       ELSE Idle)
  /\ last' = NoStep
  /\ UNCHANGED <<OtherThanCalls, inqueue, cache, seen_msg_ids, fetches, acks, dedup_log,
                 enq_log, nframes>>

\* line 200: conversations_list()
WkFetch ==
  /\ calls["w"].pc = "list_fetch"
  /\ fetches' = [fetches EXCEPT
                   !.conversations_list = Bump(@, << calls["w"].channel_name, "ok" >>)]
  /\ calls' = Set("w", [calls["w"] EXCEPT !.pc = "index"])
  /\ last' = NoStep
  /\ UNCHANGED <<OtherThanCalls, inqueue, cache, seen_msg_ids, acks, dedup_log, enq_log,
                 nframes>>

\* lines 202-207: the for loop, one assignment a step: id-to-name (205),
\* name-to-id (206), id-to-kind (207)
WkIndex ==
  /\ calls["w"].pc = "index"
  /\ LET i == calls["w"].i
         line == calls["w"].line
     IN IF i > Len(ConversationsListData)
        THEN /\ calls' = Set("w", [calls["w"] EXCEPT !.pc = "recheck"])
             /\ UNCHANGED cache
        ELSE LET channel == ConversationsListData[i]
             IN /\ cache' =
                     CASE line = 205 ->
                            [cache EXCEPT !.channel_id_to_channel_name =
                                             Put(@, channel.id, channel.name)]
                       [] line = 206 ->
                            [cache EXCEPT !.channel_name_to_channel_id =
                                             Put(@, channel.name, channel.id)]
                       [] OTHER ->
                            [cache EXCEPT !.channel_id_to_channel_type =
                                             Put(@, channel.id,
                                                 channel_data_to_channel_kind(channel))]
                /\ calls' = Set("w", IF line = 207
                                     THEN [calls["w"] EXCEPT !.i = i + 1, !.line = 205]
                                     ELSE [calls["w"] EXCEPT !.line = line + 1])
  /\ last' = NoStep
  /\ UNCHANGED <<OtherThanCalls, inqueue, seen_msg_ids, fetches, acks, dedup_log, enq_log,
                 nframes>>

\* lines 210-214: the second read, then the return or the ValueError
WkRecheck ==
  /\ calls["w"].pc = "recheck"
  /\ calls' = Set("w", Idle)
  /\ last' = NoStep
  /\ UNCHANGED <<OtherThanCalls, inqueue, cache, seen_msg_ids, fetches, acks, dedup_log,
                 enq_log, nframes>>

\* the names the worker resolves while frames arrive
RaceChannelNames == {"a new channel"}

WorkerLookup ==
  \/ \E n \in RaceChannelNames : WkRead(n)
  \/ WkFetch
  \/ WkIndex
  \/ WkRecheck

\* two listener threads and the worker's lookup, interleaved
NextRaces ==
  \/ \E t \in {"t1", "t2"} : ListenerThread(t)
  \/ WorkerLookup

SpecRaces == Init /\ [][NextRaces]_vars

\* ------------------------------------------------------------ claims C1-C3
IsOdd(i) == i % 2 = 1

\* C1: for every event id, the successive deliveries of event-callback frames
\* carrying it pass the dedup check alternately (processed, suppressed,
\* processed, ...), and the id is marked as seen exactly after an odd number
\* of deliveries.
C1_ToggleLaw ==
  /\ \A ts \in DOMAIN dedup_log :
       /\ \A i \in 1..Len(dedup_log[ts]) : dedup_log[ts][i] = IsOdd(i)
       /\ (ts \in seen_msg_ids) = IsOdd(Len(dedup_log[ts]))
  /\ seen_msg_ids \subseteq DOMAIN dedup_log

C1_Witness ==
  \E ts \in DOMAIN dedup_log :
    /\ Len(dedup_log[ts]) = 3
    /\ dedup_log[ts] = << TRUE, FALSE, TRUE >>
    /\ ts \in seen_msg_ids

IsFrameStep == last.op = "frame"

HasSubtype(req) == req.type = "events_api" /\ Subtype(req.payload.event) # None

\* C2: a frame whose event carries a subtype puts no record on the inbound
\* queue, and no record ever enqueued derives from an event with a subtype.
C2_SubtypeYieldsNothing ==
  /\ (IsFrameStep /\ HasSubtype(last.req)) =>
        (last.put = 0 /\ last.verdict \in {"suppressed", "filtered"})
  /\ \A i \in 1..Len(enq_log) : Subtype(enq_log[i].payload.event) = None
  /\ \A i \in 1..Len(inqueue) : Subtype(inqueue[i].payload.event) = None

C2_Witness ==
  /\ IsFrameStep /\ HasSubtype(last.req) /\ last.verdict = "filtered"
  /\ seen_msg_ids # {last.req.payload.event.ts}
  /\ cache # EmptyCache
  /\ inqueue # << >>

\* C3: a frame whose type is not the event-callback envelope enqueues
\* nothing, issues no identity fetch and leaves the dedup set and every
\* cache table unchanged.
C3_NonEventFrameIgnored ==
  [][ (last'.op = "frame" /\ nframes' = nframes + 1 /\ last'.req.type # "events_api")
        => /\ inqueue' = inqueue
           /\ enq_log' = enq_log
           /\ fetches' = fetches
           /\ seen_msg_ids' = seen_msg_ids
           /\ cache' = cache ]_vars

C3_Witness ==
  /\ IsFrameStep /\ last.req.type = "slash_commands" /\ last.verdict = "ignored"
  /\ seen_msg_ids # {}
  /\ cache # EmptyCache
  /\ inqueue # << >>


\* ----------------------------------------------------------- claims C4-C10
Last(q) == q[Len(q)]

CmdsOf(rid) == {i \in 1..Len(cmds) : cmds[i].rid = rid}

\* the worker leaves line 287-306 for the record in slack_msg
CommandStep == thread = "command" /\ thread' # "command"

\* C4: within one iteration of the worker loop the outbound queue is drained
\* (the drain loop has seen it empty, and the command of every record taken
\* off it has been issued) before a batch is pushed to a subscriber, and no
\* record is taken or command issued after the drain loop of that iteration.
C4_OutboundBeforeInbound ==
  [][ /\ (cmds' # cmds \/ deq_log' # deq_log) => (~iter.drained /\ ~iter.push)
      /\ ticks' # ticks =>
           /\ iter.drained
           /\ \A i \in 1..Len(deq_log) : CmdsOf(deq_log[i].rid) # {} ]_vars

C4_Witness ==
  /\ iter.cmd /\ iter.drained /\ iter.push
  /\ \E s \in Endpoints : ticks[s] # << >>
  /\ cmds # << >>

RECURSIVE Flatten(_)
Flatten(qs) == IF qs = << >> THEN << >> ELSE Head(qs) \o Flatten(Tail(qs))

IndexOf(x, q) == CHOOSE i \in 1..Len(q) : q[i] = x

\* the batches of batch_log pushed to subscriber s so far
ServedTo(s) ==
  IF thread = "push" /\ IndexOf(s, subscribers) >= push_idx
  THEN Len(batch_log) - 1 ELSE Len(batch_log)

C5_Delivery ==
  /\ enq_log = Flatten(batch_log) \o (IF thread = "in_drain" THEN slack_msgs ELSE << >>)
                 \o inqueue
  /\ \A i \in 1..Len(batch_log) : batch_log[i] # << >>
  /\ \A s \in Endpoints :
       IF InSeq(s, subscribers)
       THEN ticks[s] = SubSeq(batch_log, reg_at[s] + 1, ServedTo(s))
       ELSE ticks[s] = << >>

\* C5: the records the transport thread puts on the inbound queue are
\* neither lost, duplicated nor reordered: the enqueue order is the
\* concatenation of the drained batches and what is still queued; a batch is
\* complete (the queue is empty when it is closed) and not empty; every
\* registered subscriber is pushed each batch drained since it registered
\* exactly once, in order; and while the worker keeps running every record
\* enqueued is eventually drained into a batch and every batch is eventually
\* pushed to every registered subscriber.
C5_ExactlyOnceInOrder ==
  /\ []C5_Delivery
  /\ [][batch_log' # batch_log => (inqueue = << >> /\ inqueue' = << >>)]_vars
  /\ \A k \in 1..MaxSessionFrames :
       (Len(enq_log) >= k) ~> (Len(Flatten(batch_log)) >= k \/ ~running \/ Terminated)
  /\ \A s \in Endpoints : \A k \in 1..MaxSessionFrames :
       (InSeq(s, subscribers) /\ Len(batch_log) >= k) ~> (Len(ticks[s]) + reg_at[s] >= k)

C5_Witness ==
  /\ Len(subscribers) = 2
  /\ Len(batch_log) = 1 /\ Len(batch_log[1]) = 2
  /\ \A s \in Endpoints : ticks[s] = batch_log
  /\ running /\ thread = "sleep"

\* C6: publish appends one record to the outbound queue per call, the
\* worker takes the records in publish order, and the commands are issued
\* in publish order.
C6_OutboundFifo ==
  /\ Len(pub_log) = npub
  /\ \A i \in 1..Len(pub_log) : pub_log[i].rid = i
  /\ pub_log = deq_log \o outqueue
  /\ \A i, j \in 1..Len(cmds) : i < j => cmds[i].rid < cmds[j].rid
  /\ \A i \in 1..Len(cmds) : cmds[i].rid <= Len(deq_log)

C6_Witness ==
  /\ Len(cmds) = 2 /\ cmds[1].rid = 1 /\ cmds[2].rid = 2
  /\ thread = "command" /\ slack_msg.rid = 3

HasExplicitChannel(msg) == msg.channel_id # ""

CarriesReaction(msg) == msg.reaction # "" /\ msg.thread # ""

\* C7: a record with a reaction name, a thread reference and a channel id
\* is dispatched as exactly one add-reaction command (channel = the id,
\* name = the reaction, timestamp = the thread reference), no send-text
\* also when it carries body text, and its channel is resolved without a
\* lookup or a fetch.
C7_ReactionWithChannelId ==
  [][ /\ (CommandStep /\ CarriesReaction(slack_msg) /\ HasExplicitChannel(slack_msg)) =>
           /\ Len(cmds') = Len(cmds) + 1
           /\ \E o \in Outcomes :
                Last(cmds') = [op |-> "reactions_add", channel |-> slack_msg.channel_id,
                               name |-> slack_msg.reaction, timestamp |-> slack_msg.thread,
                               rid |-> slack_msg.rid, outcome |-> o]
           /\ CmdsOf(slack_msg.rid) = {}
      /\ (thread = "resolve" /\ thread' # "resolve" /\ HasExplicitChannel(slack_msg)) =>
           /\ fetches' = fetches /\ cache' = cache
           /\ channel_id' = slack_msg.channel_id ]_vars

C7_Witness ==
  /\ cmds # << >>
  /\ Last(cmds) = [op |-> "reactions_add", channel |-> "EFGH", name |-> "eyes",
                   timestamp |-> "1.2", rid |-> Last(cmds).rid, outcome |-> "ok"]
  /\ pub_log[Last(cmds).rid].msg = "Hello"
  /\ fetches = NoFetches

\* the id the bulk channel fetch maps a name to (the last entry wins)
ListedId(name) ==
  LET hits == {i \in 1..Len(ConversationsListData) : ConversationsListData[i].name = name}
  IN ConversationsListData[CHOOSE i \in hits : \A j \in hits : j <= i].id

ListedNames == {ConversationsListData[i].name : i \in 1..Len(ConversationsListData)}

\* only body text and a channel display name
IsTextToName(msg) ==
  /\ msg.msg # "" /\ msg.reaction = "" /\ msg.channel_id = ""
  /\ msg.channel \in ListedNames

BulkFetches(f, name) ==
  Count(f.conversations_list, <<name, "ok">>)
    + Count(f.conversations_list, <<name, "bad_status">>)
    + Count(f.conversations_list, <<name, "raise">>)

\* C8: a record with only body text and a channel name that the bulk
\* channel fetch resolves is dispatched as exactly one send-text command to
\* the id the fetch maps the name to; a name is resolved by at most one
\* successful bulk fetch, and once it is resolved no publish to it issues
\* a further fetch.
C8_TextToChannelName ==
  /\ [](\A n \in ListedNames : Count(fetches.conversations_list, <<n, "ok">>) <= 1)
  /\ [][ /\ (CommandStep /\ IsTextToName(slack_msg)) =>
              /\ Len(cmds') = Len(cmds) + 1
              /\ \E o \in Outcomes :
                   Last(cmds') = [op |-> "chat_postMessage",
                                  channel |-> ListedId(slack_msg.channel),
                                  text |-> slack_msg.msg, rid |-> slack_msg.rid,
                                  outcome |-> o]
              /\ CmdsOf(slack_msg.rid) = {}
         /\ \A n \in ListedNames :
              (Count(fetches.conversations_list, <<n, "ok">>) = 1) =>
                 BulkFetches(fetches', n) = BulkFetches(fetches, n) ]_vars

C8_Witness ==
  /\ Len(cmds) >= 2
  /\ \A i \in 1..2 :
       /\ cmds[i].op = "chat_postMessage" /\ cmds[i].channel = "new_channel"
       /\ pub_log[cmds[i].rid].channel = "a new channel"
  /\ BulkFetches(fetches, "a new channel") = 1

IsFailedSend(c) == c.op = "chat_postMessage" /\ c.outcome = "raise"

\* C9: a send-text command that fails with a platform error is attempted
\* once and not retried, its record is dropped and not re-queued, and the
\* worker goes on with the drain loop with the records queued behind it
\* untouched.
C9_SendFailureNotFatal ==
  /\ [](/\ \A i, j \in 1..Len(cmds) : cmds[i].rid = cmds[j].rid => i = j
        /\ \A i \in 1..Len(cmds) : \A k \in 1..Len(outqueue) : outqueue[k].rid # cmds[i].rid)
  /\ [][ (CommandStep /\ Len(cmds') = Len(cmds) + 1 /\ IsFailedSend(Last(cmds'))) =>
            /\ thread' = "out_check"
            /\ running' = running
            /\ outqueue' = outqueue ]_vars

C9_Witness ==
  /\ Len(cmds) >= 2
  /\ IsFailedSend(cmds[1])
  /\ cmds[2].rid = cmds[1].rid + 1
  /\ thread = "out_check"

IsFailedReaction(c) == c.op = "reactions_add" /\ c.outcome = "raise"

\* C10: a failed add-reaction command does not end the worker: the thread is
\* not ended by the exception of the record whose reaction failed.
C10_ReactionFailureNotFatal ==
  \A i \in 1..Len(cmds) :
    IsFailedReaction(cmds[i]) => ~(thread = "dead" /\ slack_msg.rid = cmds[i].rid)

\* --------------------------------------------------------- claims C11-C12
\* C11: a record whose channel name is still unknown after the bulk channel
\* fetch returned the channels does not end the worker thread.
C11_UnresolvedNameNotFatal ==
  [][ (/\ thread = "resolve"
       /\ Count(fetches'.conversations_list, <<slack_msg.channel, "ok">>)
             > Count(fetches.conversations_list, <<slack_msg.channel, "ok">>))
        => thread' # "dead" ]_vars

IsMalformed(msg) == ~(msg.reaction # "" /\ msg.thread # "") /\ msg.msg = ""

C13_StopIdleNoOp ==
  [][ (last'.op = "stop" /\ ~last'.running) =>
        /\ ~running /\ ~running'
        /\ last'.exc = ""
        /\ stop_pc' = "idle"
        /\ UNCHANGED <<thread, conn, subscribers, publishers, inqueue, outqueue, cache,
                       seen_msg_ids, cmds, ticks>> ]_vars

C13_Witness ==
  /\ last = [op |-> "stop", running |-> FALSE, exc |-> ""]
  /\ thread = "done" /\ conn = "closed" /\ stop_pc = "idle"
  /\ subscribers # << >> /\ inqueue # << >>

\* the step in which stop() returns from its join
StopReturns == stop_pc = "join" /\ stop_pc' = "idle"

Stopped == ~running /\ stop_pc = "idle" /\ Terminated

\* C14: with platform calls that all return, the worker leaves its loop at
\* the first test of the flag that finds it cleared, and stop() on a running
\* session eventually returns; when it returns the flag is false, the worker
\* thread has ended and the connection is closed, and as long as the
\* session stays stopped no command and no tick is issued.
C14_StopTerminates ==
  /\ [][ /\ StopReturns => (~running' /\ thread' \in {"done", "dead"} /\ conn' = "closed")
         /\ (thread = "loop" /\ ~running /\ thread' # "loop") => thread' = "close"
         /\ Stopped => (cmds' = cmds /\ ticks' = ticks) ]_vars
  /\ (stop_pc = "close") ~> (stop_pc = "idle" /\ Terminated)

C14_Witness ==
  /\ Stopped /\ thread = "done" /\ conn = "closed"
  /\ cmds # << >> /\ ticks["s1"] # << >>
  /\ outqueue = << >> /\ inqueue = << >>

\* C15: when an exception has ended the worker thread of a running
\* session, the session eventually turns stopped by itself: the flag is
\* cleared and the connection closed.
C15_WorkerDeathShutsDown ==
  (thread = "dead" /\ running) ~> (~running /\ conn = "closed")

\* C16: stop() never ends with an exception, and neither does the worker
\* thread when the close it issues raises.
C16_CloseFailureSwallowed ==
  /\ ~(last.op = "stop" /\ last.exc # "")
  /\ thread # "dead"

NoDuplicates(list) == \A i, j \in 1..Len(list) : list[i] = list[j] => i = j

IsRegistration(step) == step.op \in {"register_subscriber", "register_publisher"}

\* C17: no endpoint appears twice in the subscriber list or in the publisher
\* list; registering an endpoint that is registered already raises nothing
\* and changes nothing; and a subscriber is pushed each batch drained since
\* it registered exactly once, however often it registers.
C17_RegistrationDedup ==
  /\ [](/\ NoDuplicates(subscribers) /\ NoDuplicates(publishers)
        /\ \A s \in Endpoints :
             IF InSeq(s, subscribers)
             THEN /\ Len(ticks[s]) = ServedTo(s) - reg_at[s]
                  /\ \A i \in 1..Len(ticks[s]) : ticks[s][i] = batch_log[reg_at[s] + i]
             ELSE ticks[s] = << >>)
  /\ [][ (IsRegistration(last') /\ last'.known) =>
            UNCHANGED <<subscribers, publishers, reg_at, ticks, inqueue, outqueue,
                        running, thread, conn, stop_pc>> ]_vars

C17_Witness ==
  /\ last = [op |-> "register_subscriber", adapter |-> "s1", known |-> TRUE]
  /\ Len(subscribers) = 2 /\ publishers # << >>
  /\ Len(batch_log) = 1
  /\ ticks["s1"] = batch_log /\ ticks["s2"] = batch_log

\* --------------------------------------------------------- claims C18-C20
UserCached(c, id) ==
  Get(c.user_id_to_user_name, id) # None /\ Get(c.user_id_to_user_email, id) # None

ChannelCached(c, id) == Get(c.channel_id_to_channel_name, id) # None

UserFetches(f, id) ==
  Count(f.users_info, <<id, "ok">>) + Count(f.users_info, <<id, "bad_status">>)
    + Count(f.users_info, <<id, "raise">>)

ChannelFetches(f, id) ==
  Count(f.conversations_info, <<id, "ok">>)
    + Count(f.conversations_info, <<id, "bad_status">>)
    + Count(f.conversations_info, <<id, "raise">>)

\* C18 as stated: over any sequence of by-id lookups at most one
\* single-entity fetch is issued for a user id, and at most one for a
\* channel id.
C18_AtMostOneFetch ==
  /\ \A id \in UserIds : UserFetches(fetches, id) <= 1
  /\ \A id \in ChannelIds : ChannelFetches(fetches, id) <= 1

\* C18 amended: a by-id lookup fetches only while the id is not cached; a
\* lookup that completes with a successful fetch caches the id; once an id
\* is cached its entries never change, no lookup issues a fetch for it and
\* every lookup of it returns the cached pair. A user id is fetched
\* successfully at most once.
C18_CachedById ==
  /\ [](\A id \in UserIds : Count(fetches.users_info, <<id, "ok">>) <= 1)
  /\ [][ /\ \A id \in UserIds : UserCached(cache, id) =>
              /\ Get(cache'.user_id_to_user_name, id) = Get(cache.user_id_to_user_name, id)
              /\ Get(cache'.user_id_to_user_email, id) = Get(cache.user_id_to_user_email, id)
              /\ UserFetches(fetches', id) = UserFetches(fetches, id)
              /\ (last'.op = "user_from_id" /\ last'.key = id) =>
                    /\ last'.exc = ""
                    /\ last'.ret = << Get(cache.user_id_to_user_name, id),
                                      Get(cache.user_id_to_user_email, id) >>
         /\ \A id \in ChannelIds : ChannelCached(cache, id) =>
              /\ Get(cache'.channel_id_to_channel_name, id)
                    = Get(cache.channel_id_to_channel_name, id)
              /\ Get(cache'.channel_id_to_channel_type, id)
                    = Get(cache.channel_id_to_channel_type, id)
              /\ ChannelFetches(fetches', id) = ChannelFetches(fetches, id)
              /\ (last'.op = "channel_from_id" /\ last'.key = id) =>
                    /\ last'.exc = ""
                    /\ last'.ret = << Get(cache.channel_id_to_channel_name, id),
                                      Get(cache.channel_id_to_channel_type, id) >>
         /\ \A id \in UserIds :
              (/\ last'.op = "user_from_id" /\ last'.key = id
               /\ Count(fetches'.users_info, <<id, "ok">>)
                     > Count(fetches.users_info, <<id, "ok">>)) =>
                 /\ UserCached(cache', id)
                 /\ last'.ret = << cache'.user_id_to_user_name[id],
                                   cache'.user_id_to_user_email[id] >>
         /\ \A id \in ChannelIds :
              (/\ last'.op = "channel_from_id" /\ last'.key = id /\ last'.exc = ""
               /\ Count(fetches'.conversations_info, <<id, "ok">>)
                     > Count(fetches.conversations_info, <<id, "ok">>)) =>
                 /\ ChannelCached(cache', id)
                 /\ last'.ret = << cache'.channel_id_to_channel_name[id],
                                   cache'.channel_id_to_channel_type[id] >> ]_vars

C18_Witness ==
  /\ last.op = "user_from_id" /\ last.key = "USERID" /\ last.exc = ""
  /\ last.ret = << "johndoe", "johndoe@some.email" >>
  /\ Calls(fetches.users_info) = 1
  /\ Count(fetches.conversations_info, <<"DM_CHANNEL", "ok">>) = 1
  /\ ChannelCached(cache, "DM_CHANNEL")

\* the display name of a user of the directory: the normalized real name,
\* else the raw handle
DirectoryDisplayName(id) ==
  LET u == UsersInfoData[id]
  IN IF "real_name_normalized" \in DOMAIN u.profile
     THEN u.profile.real_name_normalized ELSE u.name

\* the display names present in the set a bulk user fetch returns
ListedUserNames == {DirectoryDisplayName(id) : id \in UserIds}

\* the bulk user fetches that returned the set
OkBulkUserFetches(f) ==
  Calls([k \in {x \in DOMAIN f.users_list : x[2] = "ok"} |-> f.users_list[k]])

IsByNameStep == last.op = "user_from_name"

\* C19: a by-name lookup of a name that is not in the name-to-id table
\* issues exactly one bulk user fetch (a known name issues none), and once
\* a bulk fetch has returned the set, the lookup of any name present in it
\* succeeds without a further fetch.
C19_BatchAmortization ==
  [][ last'.op = "user_from_name" =>
        /\ Calls(fetches'.users_list) - Calls(fetches.users_list)
              = (IF Get(cache.user_name_to_user_id, last'.key) = None THEN 1 ELSE 0)
        /\ fetches'.users_info = fetches.users_info
        /\ (OkBulkUserFetches(fetches) >= 1 /\ last'.key \in ListedUserNames) =>
              (fetches' = fetches /\ last'.exc = "") ]_vars

C19_Witness ==
  /\ IsByNameStep /\ last.key = "jane" /\ last.exc = "" /\ last.ret = << "USERID2" >>
  /\ Calls(fetches.users_list) = 1
  /\ Count(fetches.users_list, <<"johndoe", "ok">>) = 1
  /\ fetches.users_info = EmptyDict

\* C20: a by-name lookup whose bulk fetch did not itself raise fails with
\* ValueError (NotFound) exactly when the name is absent from the
\* name-to-id table afterwards; otherwise it returns the id of a fetched
\* user whose display name (normalized real name, else raw handle) is the
\* requested name.
C20_NotFoundIffAbsent ==
  IsByNameStep =>
    /\ last.exc \notin {"SlackApiError", "RuntimeError"} =>
          ((last.exc = "ValueError") <=> (Get(cache.user_name_to_user_id, last.key) = None))
    /\ last.exc = "" =>
          /\ last.ret[1] \in UserIds
          /\ last.ret[1] \in DOMAIN cache.user_id_to_user_name
          /\ DirectoryDisplayName(last.ret[1]) = last.key
    /\ last.exc # "" => last.ret = << None >>

C20_Witness ==
  /\ IsByNameStep /\ last.key = "blerg" /\ last.exc = "ValueError"
  /\ Count(fetches.users_list, <<"blerg", "ok">>) = 1
  /\ Get(cache.user_name_to_user_id, "johndoe") = "USERID"
  /\ Get(cache.user_id_to_user_name, "USERID") = "johndoe"

\* --------------------------------------------------------- claims C21-C30
\* the user_list() call of the step returned its members
BulkUsersReturned ==
  /\ IsByNameStep'
  /\ Calls(fetches'.users_list) > Calls(fetches.users_list)
  /\ last'.api.users_list = "ok"

HasNoId(user) == "id" \notin DOMAIN user /\ "id" \notin DOMAIN user.profile

Malformed(members) == \E i \in 1..Len(members) : HasNoId(members[i])

\* C21: a lookup by name whose bulk fetch returns a member with neither a
\* top-level nor a profile id raises RuntimeError and returns nothing,
\* whatever name was asked for, even one indexed from a member before the
\* faulty one; no other lookup raises it, and a member with its id in the
\* profile only is indexed under that id.
C21_MalformedMemberFatal ==
  [][ /\ (BulkUsersReturned /\ Malformed(last'.api.members)) =>
            (last'.exc = "RuntimeError" /\ last'.ret = << None >>)
      /\ (IsByNameStep' /\ last'.exc = "RuntimeError") =>
            (BulkUsersReturned /\ Malformed(last'.api.members))
      /\ (BulkUsersReturned /\ ~Malformed(last'.api.members)) =>
            \A i \in 1..Len(last'.api.members) :
              LET user == last'.api.members[i]
              IN ("id" \notin DOMAIN user) =>
                   Get(cache'.user_id_to_user_name, user.profile.id) # None ]_vars

\* the lookup of johndoe failed although the member before the faulty one
\* is johndoe and was indexed
C21_Witness ==
  /\ last.op = "user_from_name" /\ last.key = "johndoe"
  /\ last.exc = "RuntimeError"
  /\ last.api.members = UsersListMalformed
  /\ Get(cache.user_name_to_user_id, "johndoe") = "USERID"
  /\ Get(cache.user_name_to_user_id, "jane") = None

IsChannelByIdStep == last.op = "channel_from_id"

\* the conversations_info call of the step returned the channel's record
ChannelInfoReturned ==
  /\ IsChannelByIdStep'
  /\ Calls(fetches'.conversations_info) > Calls(fetches.conversations_info)
  /\ last'.api.conversations_info = "ok"

FlagSet(data, flag) == flag \in DOMAIN data /\ data[flag]

\* C22: a fetched channel record is classified message when its direct flag
\* is set, whatever the private flag; private when the direct flag is unset
\* or missing and the private flag is set; public when neither flag is set,
\* each of them unset or missing; the kind is returned and cached.
C22_KindPrecedence ==
  [][ ChannelInfoReturned =>
        LET data == last'.api.channel[last'.key]
            kind == last'.ret[2]
        IN /\ FlagSet(data, "is_im") => kind = "message"
           /\ (~FlagSet(data, "is_im") /\ FlagSet(data, "is_private")) => kind = "private"
           /\ (~FlagSet(data, "is_im") /\ ~FlagSet(data, "is_private")) => kind = "public"
           /\ last'.exc = ""
           /\ Get(cache'.channel_id_to_channel_type, last'.key) = kind ]_vars

\* a record carrying both flags set was classified, and so was one
\* carrying neither flag
C22_Witness ==
  /\ last.op = "channel_from_id" /\ last.key = "EFGH"
  /\ FlagSet(last.api.channel["EFGH"], "is_im")
  /\ FlagSet(last.api.channel["EFGH"], "is_private")
  /\ last.ret = << "IM", "message" >>
  /\ Get(cache.channel_id_to_channel_type, "new_channel") = "public"
  /\ Get(cache.channel_id_to_channel_type, "DM_CHANNEL") = "private"

\* C23: a by-id lookup of a direct channel that fetches the channel's
\* record and completes returns the name IM and the kind message, and when
\* the counterpart user is resolved the name-to-id table maps that user's
\* display name to the channel id; the entry stays, and every later lookup
\* of the channel returns the same pair.
C23_DirectChannel ==
  [][ \A id \in ChannelIds :
        /\ (/\ ChannelInfoReturned /\ last'.key = id /\ last'.exc = ""
            /\ FlagSet(last'.api.channel[id], "is_im")) =>
              /\ last'.ret = << "IM", "message" >>
              /\ LET peer == last'.api.channel[id].user
                 IN UserCached(cache', peer) =>
                      Get(cache'.channel_name_to_channel_id, DirectoryDisplayName(peer)) = id
        /\ \A peer \in UserIds :
              Get(cache.channel_name_to_channel_id, DirectoryDisplayName(peer)) = id =>
                Get(cache'.channel_name_to_channel_id, DirectoryDisplayName(peer)) = id
        /\ (/\ IsChannelByIdStep' /\ last'.key = id
            /\ Get(cache.channel_id_to_channel_type, id) = "message") =>
              (last'.exc = "" /\ last'.ret = << "IM", "message" >>) ]_vars

C23_Witness ==
  /\ last.op = "channel_from_id" /\ last.key = "DM_CHANNEL"
  /\ last.ret = << "IM", "message" >>
  /\ Get(cache.channel_name_to_channel_id, "johndoe") = "DM_CHANNEL"
  /\ Get(cache.channel_id_to_channel_name, "DM_CHANNEL") = "IM"
  /\ Calls(fetches.users_info) = 1

\* the tagged literal that wraps an id
Wrap(id) == "<#" \o id \o "|>"

\* ids a literal may wrap: two of the directory, one unknown to it, the
\* empty one
WrappedIds == {"EFGH", "new_channel", "C12345", ""}

IsChannelByNameStep == last.op = "channel_from_name"

\* C24: a by-name lookup of the literal that wraps an id returns that id,
\* raises nothing, issues no fetch and leaves every cache table as it was,
\* whatever the tables hold and whether or not the directory knows the id.
C24_TaggedShortCircuit ==
  [][ \A id \in WrappedIds :
        (IsChannelByNameStep' /\ last'.key = Wrap(id)) =>
          /\ last'.ret = << id >>
          /\ last'.exc = ""
          /\ cache' = cache
          /\ fetches' = fetches ]_vars

\* the literal of an id the directory does not know resolved against a
\* filled cache without a further fetch
C24_Witness ==
  /\ last.op = "channel_from_name" /\ last.key = "<#C12345|>"
  /\ last.ret = << "C12345" >>
  /\ Get(cache.channel_name_to_channel_id, "a new channel") = "new_channel"
  /\ Calls(fetches.conversations_list) = 1

Untagged(channel_name) == \A id \in WrappedIds : channel_name # Wrap(id)

\* the kind of a listed channel, by its flags
ListedKind(channel) ==
  IF FlagSet(channel, "is_im") THEN "message"
  ELSE IF FlagSet(channel, "is_private") THEN "private" ELSE "public"

\* C25: a by-name lookup of an untagged name issues exactly one bulk
\* channel fetch when the name is not in the name-to-id table and none when
\* it is; a fetch that returns the set indexes every listed channel by name,
\* id and kind; the lookup returns the id found after the refresh and raises
\* ValueError exactly when the name is still absent; once the set has been
\* returned every listed name resolves without a further fetch.
C25_BulkChannelRefresh ==
  [][ (IsChannelByNameStep' /\ Untagged(last'.key)) =>
        /\ Calls(fetches'.conversations_list) - Calls(fetches.conversations_list)
              = IF Get(cache.channel_name_to_channel_id, last'.key) = None THEN 1 ELSE 0
        /\ fetches'.conversations_info = fetches.conversations_info
        /\ (/\ Calls(fetches'.conversations_list) > Calls(fetches.conversations_list)
            /\ last'.api.conversations_list = "ok") =>
              \A i \in 1..Len(ConversationsListData) :
                LET channel == ConversationsListData[i]
                IN /\ Get(cache'.channel_name_to_channel_id, channel.name) = channel.id
                   /\ Get(cache'.channel_id_to_channel_name, channel.id) = channel.name
                   /\ Get(cache'.channel_id_to_channel_type, channel.id) = ListedKind(channel)
        /\ last'.exc # "SlackApiError" =>
              /\ last'.ret = << Get(cache'.channel_name_to_channel_id, last'.key) >>
              /\ last'.exc = "ValueError" <=>
                    Get(cache'.channel_name_to_channel_id, last'.key) = None
        /\ last'.exc = "SlackApiError" <=>
              (/\ Calls(fetches'.conversations_list) > Calls(fetches.conversations_list)
               /\ last'.api.conversations_list = "raise")
        /\ (/\ \E n \in ChannelLookupNames : Count(fetches.conversations_list, <<n, "ok">>) > 0
            /\ last'.key \in ListedNames) =>
              (fetches' = fetches /\ last'.exc = "" /\ last'.ret[1] # None) ]_vars

\* a lookup that was not found fetched the set, and the lookup of a listed
\* name then resolved from the cache
C25_Witness ==
  /\ last.op = "channel_from_name" /\ last.key = "a private channel"
  /\ last.ret = << "EFGH" >> /\ last.exc = ""
  /\ Count(fetches.conversations_list, << "no such channel", "ok" >>) = 1
  /\ Calls(fetches.conversations_list) = 1
  /\ Get(cache.channel_id_to_channel_type, "EFGH") = "private"

Children(element) == IF "elements" \in DOMAIN element THEN element.elements ELSE << >>

\* the number of user-mention leaves of user_id in a block list, at any depth
RECURSIVE MentionsOf(_, _)
MentionsOf(blocks, user_id) ==
  IF blocks = << >> THEN 0
  ELSE LET element == Head(blocks)
       IN (IF "type" \in DOMAIN element /\ element.type = "user"
              /\ element.user_id = user_id THEN 1 ELSE 0)
          + MentionsOf(Children(element), user_id)
          + MentionsOf(Tail(blocks), user_id)

CountIn(seq, x) == Cardinality({i \in 1..Len(seq) : seq[i] = x})

\* an extraction that returned its list
TagsReturned == last.op = "tags" /\ last.exc = ""

MentionNormalized ==
  /\ last.op = "frame" /\ last.req.type = "events_api"
  /\ last.req.payload.event.type = "app_mention"
  /\ last.verdict = "normalized" /\ last.exc = ""

\* the record the last callback put on the inbound queue
LastPut == enq_log[Len(enq_log)]

CarriesItsEvent(msg) ==
  LET event == msg.payload.event
  IN /\ msg.msg = event.text
     /\ msg.reaction = ""
     /\ msg.user_id = event.user
     /\ msg.channel_id = event.channel
     /\ msg.thread = event.ts

\* C28: every record on the inbound queue, and every record ever put on
\* it, carries the body text of its event and an empty reaction, the
\* event's user and channel as author id and channel id and the event's ts
\* as thread; the record a callback puts is built from the frame delivered.
C28_InboundRecordShape ==
  /\ \A i \in 1..Len(inqueue) : CarriesItsEvent(inqueue[i])
  /\ \A i \in 1..Len(enq_log) : CarriesItsEvent(enq_log[i])
  /\ (last.op = "frame" /\ last.put > 0) =>
        (last.put = 1 /\ LastPut.payload = last.req.payload)

C28_Witness ==
  /\ Len(inqueue) = 2
  /\ inqueue[1].payload.event.type = "app_mention" /\ inqueue[1].thread = "1.2"
  /\ inqueue[1].msg = "<@BOTID> <@USERID> <@USERID2>"
  /\ inqueue[2].channel_type = "message" /\ inqueue[2].thread = "2.1"
  /\ inqueue[2].reaction = ""

\* the event-callback frames delivered so far: each leaves one dedup verdict
EventFramesDelivered ==
  SumOver([ts \in DOMAIN dedup_log |-> Len(dedup_log[ts])], DOMAIN dedup_log)

\* C29: every event-callback frame is acknowledged exactly once, with its
\* own envelope id, whether it is normalized, filtered or suppressed and
\* whether or not normalization raises; the acknowledgement is the first
\* thing the callback does, ahead of the put of any record derived from the
\* frame, and every record ever queued stems from an acknowledged frame.
C29_AckOnceBeforePut ==
  /\ NoDuplicates(acks)
  /\ Len(acks) = EventFramesDelivered
  /\ \A i \in 1..Len(enq_log) : \E j \in 1..Len(acks) : acks[j] = enq_log[i].obj
  /\ (last.op = "frame" /\ last.req.type = "events_api") =>
        /\ acks # << >> /\ acks[Len(acks)] = last.envelope_id
        /\ last.trace # << >>
        /\ last.trace[1] = [e |-> "ack", id |-> last.envelope_id]
        /\ \A i \in 2..Len(last.trace) :
              last.trace[i] = [e |-> "put", id |-> last.envelope_id]
        /\ Len(last.trace) = 1 + last.put

\* a normalized frame and its suppressed second delivery were both
\* acknowledged
C29_Witness ==
  /\ last.op = "frame" /\ last.verdict = "suppressed"
  /\ acks = << 1, 2 >>
  /\ Len(enq_log) = 1 /\ enq_log[1].obj = 1
  /\ last.trace = << [e |-> "ack", id |-> 2] >>

\* the seven tables of the cache
CacheTables == DOMAIN EmptyCache

\* C30: no step of a session (a lookup of any kind, a callback, a publish,
\* a step of the worker, start or stop) removes a key from a user table or
\* a channel table.
C30_NoEviction ==
  [][ \A t \in CacheTables : DOMAIN cache[t] \subseteq DOMAIN cache'[t] ]_vars

\* a session that ran, dispatched a record and was stopped still holds the
\* users and channels it learnt
C30_Witness ==
  /\ ~running /\ thread = "done" /\ conn = "closed" /\ stop_pc = "idle"
  /\ cmds # << >>
  /\ Get(cache.channel_name_to_channel_id, "a new channel") = "new_channel"
  /\ Get(cache.user_id_to_user_name, "USERID") = "johndoe"
  /\ Cardinality(DOMAIN cache.channel_id_to_channel_type) >= 2

\* --------------------------------------------------------- claims C31-C40
\* the single-user and single-channel fetches issued for an id, and the
\* bulk channel fetches issued for a name
FetchesOfUser(user_id) == Count(fetches.users_info, <<user_id, "ok">>)

FetchesOfChannel(id) ==
  Count(fetches.conversations_info, <<id, "ok">>)
    + Count(fetches.conversations_list, <<ConversationsInfoData[id].name, "ok">>)

\* C31: the read, the test and the stores of a lookup are one atomic unit:
\* when lookups for the same uncached user or channel run on different
\* threads, at most one fetch is issued for it.
C31_AtMostOneFetchPerKey ==
  /\ \A u \in UserIds : FetchesOfUser(u) <= 1
  /\ FetchesOfChannel("new_channel") <= 1

\* the positions of the worker inside an iteration, before the outbound
\* drain has ended and before the inbound batch is taken
InDrain == {"out_check", "resolve", "command"}

BeforeBatch == InDrain \cup {"in_check"}

\* the worker has left its loop at the test of the flag
Exited == thread \in {"close", "done"}

Elems(q) == {q[i] : i \in 1..Len(q)}

\* C32: the flag is tested at the top of an iteration only. A worker that
\* stop() found inside an iteration leaves its loop only at the next test of
\* the flag, and by then has taken every record that was on the outbound
\* queue off it and has drained the inbound records into a batch; with the
\* flag cleared it still takes the next record when the queue is not empty,
\* leaves the drain only on an empty queue, and issues the command of the
\* record in flight.
C32_CooperativeCancel ==
  /\ [][ /\ (thread' = "close" /\ thread # "close") => (thread = "loop" /\ ~running)
         /\ (~running /\ thread = "out_check" /\ thread' # thread) =>
              IF outqueue = << >> THEN thread' = "in_check"
              ELSE thread' = "resolve" /\ deq_log' = Append(deq_log, Head(outqueue))
         /\ (~running /\ thread = "command" /\ thread' # thread
               /\ IsReaction(slack_msg) /\ channel_id # "Unbound") =>
              Len(cmds') = Len(cmds) + 1
         /\ (~running /\ thread = "in_check" /\ thread' # thread /\ inqueue # << >>) =>
              thread' = "in_drain" ]_vars
  /\ [](Exited /\ stop_at.thread \in InDrain =>
          Elems(stop_at.outqueue) \subseteq Elems(deq_log))
  /\ [](Exited /\ stop_at.thread \in BeforeBatch =>
          Elems(stop_at.inqueue) \subseteq UNION {Elems(batch_log[i]) : i \in 1..Len(batch_log)})

\* stop() found the worker in the drain with a record still queued and an
\* inbound record waiting; the worker has since issued a command, pushed the
\* batch and returned
C32_Witness ==
  /\ thread = "done"
  /\ stop_at.thread = "out_check"
  /\ stop_at.outqueue # << >> /\ stop_at.inqueue # << >>
  /\ Len(cmds) > stop_at.cmds
  /\ Elems(stop_at.inqueue) \subseteq UNION {Elems(ticks["s1"][i]) : i \in 1..Len(ticks["s1"])}

\* the listener threads are all out of the listener
ListenersIdle == \A t \in {"t1", "t2"} : calls[t].pc = "idle"

\* the records put on the inbound queue for the event of id ts
PutFor(ts) == {i \in 1..Len(enq_log) : enq_log[i].thread = ts}

\* C33: two deliveries of the same qualifying event put exactly one record
\* on the inbound queue, also when two listener threads handle them at once.
C33_OnePerPair ==
  \A ts \in EventIds :
    (ListenersIdle /\ ts \in DOMAIN dedup_log /\ Len(dedup_log[ts]) = 2) =>
      Cardinality(PutFor(ts)) = 1

\* the published record a command was issued for
RecordOf(cmd) == CHOOSE r \in Elems(pub_log) : r.rid = cmd.rid

\* the channel ids a record designates: the id it carries, else the id its
\* channel name is a tag of or is listed under, else none
OwnChannels(r) ==
  IF r.channel_id # "" THEN {r.channel_id}
  ELSE IF r.channel = "" THEN {}
  ELSE IF \E id \in WrappedIds : Wrap(id) = r.channel
  THEN {id \in WrappedIds : Wrap(id) = r.channel}
  ELSE {ConversationsListData[i].id : i \in {j \in 1..Len(ConversationsListData) :
                                                ConversationsListData[j].name = r.channel}}

\* C34: every command goes to the channel id its record carries or the one
\* resolved from its channel name; a record with neither is never sent to
\* the channel of the record before it.
C34_TargetsOwnChannel ==
  \A i \in 1..Len(cmds) : cmds[i].channel \in OwnChannels(RecordOf(cmds[i]))

\* q continues p
IsPrefix(p, q) == Len(p) <= Len(q) /\ \A i \in 1..Len(p) : q[i] = p[i]

\* stop() found the worker before the first test of the flag
StoppedAtOnce == stop_at.thread \in {"connect", "loop"}

\* C35: whether the worker's connect() runs before or after the close() of
\* stop(), the connection is closed whenever stop() has returned and the
\* worker has ended; a worker that stop() found before its test of the flag
\* leaves at that test, having taken nothing off either queue and issued no
\* command since; and a worker that has left its loop issues no command and
\* pushes no batch.
C35_StartThenStop ==
  /\ [](Stopped /\ thread # "none" => conn = "closed")
  /\ [](Exited /\ StoppedAtOnce =>
          /\ Len(cmds) = stop_at.cmds
          /\ IsPrefix(stop_at.outqueue, outqueue)
          /\ IsPrefix(stop_at.inqueue, inqueue))
  /\ [][ /\ StopReturns => (conn' = "closed" /\ Terminated')
         /\ Exited => (cmds' = cmds /\ ticks' = ticks /\ deq_log' = deq_log
                         /\ batch_log' = batch_log) ]_vars

\* the close() of stop() has run and the worker has connected after it;
\* stop() waits in its join
C35_Witness ==
  /\ stop_pc = "join" /\ ~running
  /\ stop_at.thread = "connect"
  /\ thread = "loop" /\ conn = "connected"

\* the step delivers an event-callback frame
EventFrameStep == last'.op = "frame" /\ nframes' = nframes + 1 /\ last'.req.type = "events_api"

\* C36: the id is marked before the filter and before normalization. A
\* frame that passes the dedup test and is then filtered, or whose
\* normalization raises, leaves its id marked and puts nothing; and a frame
\* whose id is marked, qualifying or not, is suppressed: it puts nothing and
\* clears the mark. So such a pair of frames produces no record.
C36_MarkBeforeFilter ==
  [][ EventFrameStep =>
        LET ts == last'.req.payload.event.ts
        IN /\ (ts \notin seen_msg_ids /\ (last'.verdict = "filtered" \/ last'.exc # "")) =>
                (ts \in seen_msg_ids' /\ enq_log' = enq_log)
           /\ ts \notin seen_msg_ids => last'.verdict # "suppressed"
           /\ ts \in seen_msg_ids =>
                /\ last'.verdict = "suppressed"
                /\ ts \notin seen_msg_ids'
                /\ enq_log' = enq_log /\ inqueue' = inqueue ]_vars

\* a qualifying frame was suppressed as the second of its id; the first was
\* filtered or raised, and the pair has produced nothing
C36_Witness ==
  /\ IsFrameStep /\ last.req.type = "events_api"
  /\ Qualifies(last.req.payload.event)
  /\ last.verdict = "suppressed"
  /\ dedup_log[last.req.payload.event.ts] = << TRUE, FALSE >>
  /\ PutFor(last.req.payload.event.ts) = {}

\* the position of the first member without an id
FirstMalformed(members) ==
  CHOOSE i \in 1..Len(members) :
    HasNoId(members[i]) /\ \A j \in 1..(i - 1) : ~HasNoId(members[j])

\* the id of a member that has one, and the email it is indexed under
IdOf(user) == IF "id" \in DOMAIN user THEN user.id ELSE user.profile.id

EmailOf(user) == IF "email" \in DOMAIN user.profile THEN user.profile.email ELSE IdOf(user)

\* user is indexed in the four user tables of c
Indexed(c, user) ==
  /\ Get(c.user_id_to_user_name, IdOf(user)) = MemberName(user)
  /\ Get(c.user_name_to_user_id, MemberName(user)) = IdOf(user)
  /\ Get(c.user_id_to_user_email, IdOf(user)) = EmailOf(user)
  /\ Get(c.user_email_to_user_id, EmailOf(user)) = IdOf(user)

\* the four entries of user are the same in c and in c2
SameEntries(c, c2, user) ==
  /\ Get(c2.user_id_to_user_name, IdOf(user)) = Get(c.user_id_to_user_name, IdOf(user))
  /\ Get(c2.user_name_to_user_id, MemberName(user)) = Get(c.user_name_to_user_id, MemberName(user))
  /\ Get(c2.user_id_to_user_email, IdOf(user)) = Get(c.user_id_to_user_email, IdOf(user))
  /\ Get(c2.user_email_to_user_id, EmailOf(user)) = Get(c.user_email_to_user_id, EmailOf(user))

\* C37: a by-name lookup that fails with RuntimeError leaves every member
\* before the faulty one indexed in the four user tables and writes no entry
\* of a member after it; a later lookup of a name so indexed returns its id
\* without a fetch.
C37_PartialIndex ==
  [][ /\ (IsByNameStep' /\ last'.exc = "RuntimeError") =>
            LET members == last'.api.members
                k == FirstMalformed(members)
            IN /\ \A i \in 1..(k - 1) : Indexed(cache', members[i])
               /\ \A i \in (k + 1)..Len(members) :
                    HasNoId(members[i]) \/ SameEntries(cache, cache', members[i])
      /\ (IsByNameStep' /\ Get(cache.user_name_to_user_id, last'.key) # None) =>
            /\ fetches' = fetches /\ cache' = cache
            /\ last'.exc = ""
            /\ last'.ret = << Get(cache.user_name_to_user_id, last'.key) >> ]_vars

\* johndoe, indexed by the one bulk fetch, which failed on the member after
\* it, is resolved without a fetch; jane, who follows the faulty member, is
\* not indexed
C37_Witness ==
  /\ IsByNameStep /\ last.key = "johndoe" /\ last.exc = "" /\ last.ret = << "USERID" >>
  /\ Calls(fetches.users_list) = 1
  /\ Count(fetches.users_list, << "jane", "ok" >>) = 1
  /\ Get(cache.user_name_to_user_id, "jane") = None
  /\ Get(cache.user_id_to_user_name, "USERID2") = None

\* C38: the user tables are mutually inverse in every state: the name an id
\* is indexed under is indexed under that id, so the name returned for an
\* id resolves back to the id, also when two users share a display name.
C38_MutuallyInverse ==
  \A i \in DOMAIN cache.user_id_to_user_name :
    Get(cache.user_name_to_user_id, cache.user_id_to_user_name[i]) = i

\* the pair a single-user fetch yields for an id: the normalized real name,
\* else the handle, and the email, else the empty string
DirectoryPair(id) ==
  LET u == UsersInfoData[id]
  IN << IF "real_name_normalized" \in DOMAIN u.profile
        THEN u.profile.real_name_normalized ELSE u.name,
        IF "email" \in DOMAIN u.profile THEN u.profile.email ELSE "" >>

\* C39: the (display name, email) pair a lookup by id returns for a user of
\* the directory is the same whichever lookups ran before it, whether the
\* user was indexed by a single-user fetch or by a bulk fetch: for a user
\* without an email, the name and the empty string.
C39_SamePairWhateverBefore ==
  (last.op = "user_from_id" /\ last.exc = "" /\ last.ret[1] # None) =>
     last.ret = DirectoryPair(last.key)

\* C40: an inbound record whose channel is known to the directory never
\* carries an empty channel kind, also when the worker's bulk channel fetch
\* runs while the listener resolves the channel by its id.
C40_KindNeverEmpty ==
  \A i \in 1..Len(enq_log) :
    enq_log[i].channel_id \in ChannelIds => enq_log[i].channel_type # ""

====
